---- MODULE Spec2Model ----
(***************************************************************************)
(* r-lox: the recursive-descent parser (src/src/ast.rs), the chained scope *)
(* store (src/src/environment.rs), the tree-walking evaluator              *)
(* (src/src/eval.rs) and the top-level statement loop (src/src/main.rs).   *)
(*                                                                         *)
(* Conventions.  A token is a record whose field t is the TokenType tag    *)
(* (payloads: n for Number, i for Identifier, s for String).  An AST node  *)
(* is a record whose field t is the AstType tag.  read_pos counts the      *)
(* tokens consumed, so the token under the read position is ts[pos + 1].   *)
(* A text is a sequence of one-character strings.  A number is an integer. *)
(***************************************************************************)
EXTENDS Integers, Sequences, FiniteSets, TLC

VARIABLES tokens, read_pos, result, iters, pc, idx, env, out, hist, list

vars == <<tokens, read_pos, result, iters, pc, idx, env, out, hist, list>>

(***************************************************************************)
(* Bounds of the model.                                                    *)
(***************************************************************************)
\* longest token sequence (end marker not counted) of the exhaustive parser inputs
MaxTokens == 5
\* deepest block nesting of the generated scripts
MaxDepth == 3
\* most iterations of one while loop the model follows
MaxLoop == 6

(***************************************************************************)
(* Tokens (src/src/token.rs)                                               *)
(***************************************************************************)
Tok(k) == [t |-> k]
TNum(n) == [t |-> "Number", n |-> n]
TId(i) == [t |-> "Identifier", i |-> i]
TStr(s) == [t |-> "String", s |-> s]

(***************************************************************************)
(* AstType (src/src/ast.rs)                                                *)
(***************************************************************************)
AstNumber(n) == [t |-> "Number", n |-> n]
AstString(s) == [t |-> "String", s |-> s]
AstTrue == [t |-> "True"]
AstFalse == [t |-> "False"]
AstNil == [t |-> "Nil"]
AstIdentifier(i) == [t |-> "Identifier", i |-> i]
AstGrouping(o) == [t |-> "Grouping", o |-> o]
AstUnary(k, o) == [t |-> k, o |-> o]
AstBinary(k, l, r) == [t |-> k, l |-> l, r |-> r]
AstAssign(i, o) == [t |-> "Assign", i |-> i, o |-> o]
AstCall(callee, args) == [t |-> "Call", callee |-> callee, arguments |-> args]
AstVar(i, o) == [t |-> "Var", i |-> i, o |-> o]
AstFun(i, args, body) == [t |-> "Fun", i |-> i, args |-> args, body |-> body]
AstPrint(o) == [t |-> "Print", o |-> o]
AstReturn(o) == [t |-> "Return", o |-> o]
AstBlock(arr) == [t |-> "Block", arr |-> arr]
AstWhile(cond, stmt) == [t |-> "While", cond |-> cond, stmt |-> stmt]
AstIf(cond, if_stmt, else_stmt) ==
    [t |-> "If", cond |-> cond, if_stmt |-> if_stmt, else_stmt |-> else_stmt]

(***************************************************************************)
(* Parser (src/src/ast.rs).  Every operator takes the token sequence and   *)
(* the read position and yields the ParseResult together with the read     *)
(* position the function leaves behind, on success and on failure alike.   *)
(***************************************************************************)
POk(a, p) == [ok |-> TRUE, ast |-> a, pos |-> p]
PErr(e, p) == [ok |-> FALSE, err |-> e, pos |-> p]

\* a usize that wrapped below zero is kept as its negative representative:
\* as an unsigned value it is above every length
end(ts, p) == p < 0 \/ p >= Len(ts) \/ ts[p + 1].t = "Eof"

\* read_pos -= 1
back(p) == p - 1

consume(ts, p, expect) ==
    IF end(ts, p) THEN PErr("CouldNotReadToken", p)
    ELSE IF ts[p + 1] # expect THEN PErr("NotFoundToken", p + 1)
    ELSE POk(ts[p + 1], p + 1)

\* the cap on argument and parameter lists
MaxArgs == 255

\* the parser functions call one another through Parse, defined after them
RECURSIVE Parse(_, _, _, _)
primary(ts, p) ==
    IF end(ts, p) THEN PErr("CouldNotReadToken", p)
    ELSE LET token == ts[p + 1] IN
         CASE token.t = "Number" -> POk(AstNumber(token.n), p + 1)
           [] token.t = "String" -> POk(AstString(token.s), p + 1)
           [] token.t = "True" -> POk(AstTrue, p + 1)
           [] token.t = "False" -> POk(AstFalse, p + 1)
           [] token.t = "Nil" -> POk(AstNil, p + 1)
           [] token.t = "LeftParen" ->
                LET expr == Parse("expression", ts, p + 1, <<>>) IN
                IF ~expr.ok THEN expr
                ELSE LET c == consume(ts, expr.pos, Tok("RightParen")) IN
                     IF ~c.ok THEN c ELSE POk(AstGrouping(expr.ast), c.pos)
           [] token.t = "Identifier" -> POk(AstIdentifier(token.i), p + 1)
           [] OTHER -> PErr("NotSupportToken", p + 1)

\* one iteration of the loop of Parser::arguments: the loop goes on ("loop"),
\* breaks ("break") or returns the error ("err")
arguments_iter(ts, p, args) ==
    IF end(ts, p) THEN [k |-> "err", pos |-> p, args |-> args]
    ELSE LET token == ts[p + 1] IN
         CASE token.t = "RightParen" -> [k |-> "break", pos |-> p, args |-> args]
           [] token.t = "Comma" -> [k |-> "loop", pos |-> p + 1, args |-> args]
           [] OTHER ->
                LET arg == Parse("expression", ts, p, <<>>)
                    pushed == IF arg.ok THEN Append(args, arg.ast) ELSE args
                IN  [k |-> IF Len(pushed) >= MaxArgs THEN "break" ELSE "loop",
                     pos |-> arg.pos, args |-> pushed]

\* after the loop: self.consume(Some(TokenType::RightParen))?; Ok(arguments)
arguments_close(ts, p, args) ==
    LET c == consume(ts, p, Tok("RightParen")) IN
    IF ~c.ok THEN c ELSE POk(args, c.pos)

arguments(ts, p, args) ==
    LET it == arguments_iter(ts, p, args) IN
    CASE it.k = "err" -> PErr("CouldNotReadToken", it.pos)
      [] it.k = "break" -> arguments_close(ts, it.pos, it.args)
      [] OTHER -> Parse("arguments", ts, it.pos, it.args)

call(ts, p) ==
    LET expr == Parse("primary", ts, p, <<>>) IN
    IF ~expr.ok THEN expr
    ELSE IF end(ts, expr.pos) THEN PErr("CouldNotReadToken", expr.pos)
    ELSE IF ts[expr.pos + 1].t = "LeftParen"
         THEN LET args == Parse("arguments", ts, expr.pos + 1, <<>>) IN
              IF ~args.ok THEN args
              ELSE IF expr.ast.t = "Identifier"
                   THEN POk(AstCall(expr.ast.i, args.ast), args.pos)
                   ELSE PErr("NotFoundAstType", args.pos)
         ELSE POk(expr.ast, expr.pos)

unary(ts, p) ==
    IF end(ts, p) THEN PErr("CouldNotReadToken", p)
    ELSE LET token == ts[p + 1] IN
         CASE token.t = "Bang" ->
                LET u == Parse("unary", ts, p + 1, <<>>) IN
                IF ~u.ok THEN u ELSE POk(AstUnary("Bang", u.ast), u.pos)
           [] token.t = "Minus" ->
                LET u == Parse("unary", ts, p + 1, <<>>) IN
                IF ~u.ok THEN u ELSE POk(AstUnary("UnaryMinus", u.ast), u.pos)
           [] OTHER -> Parse("call", ts, p, <<>>)

FactorOp(k) == CASE k = "Slash" -> "Div" [] k = "Star" -> "Mul" [] OTHER -> "None"

\* a factor loop whose right operand is a whole term
factor_loop_loose(ts, p, left) ==
    IF end(ts, p) THEN POk(left, p)
    ELSE LET op == FactorOp(ts[p + 1].t) IN
         IF op = "None" THEN POk(left, p)
         ELSE LET right == Parse("term", ts, p + 1, <<>>) IN
              IF ~right.ok THEN right
              ELSE Parse("factor_loop", ts, right.pos, AstBinary(op, left, right.ast))

factor_loop(ts, p, left) ==
    IF end(ts, p) THEN POk(left, p)
    ELSE LET op == FactorOp(ts[p + 1].t) IN
         IF op = "None" THEN POk(left, p)
         ELSE LET right == Parse("unary", ts, p + 1, <<>>) IN
              IF ~right.ok THEN right
              ELSE Parse("factor_loop", ts, right.pos, AstBinary(op, left, right.ast))

factor(ts, p) ==
    LET u == Parse("unary", ts, p, <<>>) IN
    IF ~u.ok THEN u ELSE Parse("factor_loop", ts, u.pos, u.ast)

TermOp(k) == CASE k = "Minus" -> "Minus" [] k = "Plus" -> "Plus" [] OTHER -> "None"

\* a term loop that takes everything after the operator as the right operand
term_loop_right(ts, p, left) ==
    IF end(ts, p) THEN POk(left, p)
    ELSE LET op == TermOp(ts[p + 1].t) IN
         IF op = "None" THEN POk(left, p)
         ELSE LET right == Parse("term", ts, p + 1, <<>>) IN
              IF ~right.ok THEN right
              ELSE POk(AstBinary(op, left, right.ast), right.pos)

term_loop(ts, p, left) ==
    IF end(ts, p) THEN POk(left, p)
    ELSE LET op == TermOp(ts[p + 1].t) IN
         IF op = "None" THEN POk(left, p)
         ELSE LET right == Parse("factor", ts, p + 1, <<>>) IN
              IF ~right.ok THEN right
              ELSE Parse("term_loop", ts, right.pos, AstBinary(op, left, right.ast))

term(ts, p) ==
    LET f == Parse("factor", ts, p, <<>>) IN
    IF ~f.ok THEN f ELSE Parse("term_loop", ts, f.pos, f.ast)

ComparisonOp(k) ==
    IF k \in {"Greater", "GreaterEqual", "Less", "LessEqual"} THEN k ELSE "None"

comparison_loop(ts, p, left) ==
    IF end(ts, p) THEN POk(left, p)
    ELSE LET op == ComparisonOp(ts[p + 1].t) IN
         IF op = "None" THEN POk(left, p)
         ELSE LET right == Parse("term", ts, p + 1, <<>>) IN
              IF ~right.ok THEN right
              ELSE Parse("comparison_loop", ts, right.pos, AstBinary(op, left, right.ast))

comparison(ts, p) ==
    LET f == Parse("term", ts, p, <<>>) IN
    IF ~f.ok THEN f ELSE Parse("comparison_loop", ts, f.pos, f.ast)

EqualityOp(k) == IF k \in {"BangEqual", "EqualEqual"} THEN k ELSE "None"

equality_loop(ts, p, left) ==
    IF end(ts, p) THEN POk(left, p)
    ELSE LET op == EqualityOp(ts[p + 1].t) IN
         IF op = "None" THEN POk(left, p)
         ELSE LET right == Parse("comparison", ts, p + 1, <<>>) IN
              IF ~right.ok THEN right
              ELSE Parse("equality_loop", ts, right.pos, AstBinary(op, left, right.ast))

equality(ts, p) ==
    LET c == Parse("comparison", ts, p, <<>>) IN
    IF ~c.ok THEN c ELSE Parse("equality_loop", ts, c.pos, c.ast)

and_loop(ts, p, left) ==
    IF end(ts, p) THEN PErr("CouldNotReadToken", p)
    ELSE IF ts[p + 1].t = "And"
         THEN LET right == Parse("equality", ts, p + 1, <<>>) IN
              IF ~right.ok THEN right
              ELSE Parse("and_loop", ts, right.pos, AstBinary("And", left, right.ast))
         ELSE POk(left, p)

and_parse(ts, p) ==
    LET e == Parse("equality", ts, p, <<>>) IN
    IF ~e.ok THEN e ELSE Parse("and_loop", ts, e.pos, e.ast)

or_loop(ts, p, left) ==
    IF end(ts, p) THEN PErr("CouldNotReadToken", p)
    ELSE IF ts[p + 1].t = "Or"
         THEN LET right == Parse("and_parse", ts, p + 1, <<>>) IN
              IF ~right.ok THEN right
              ELSE Parse("or_loop", ts, right.pos, AstBinary("Or", left, right.ast))
         ELSE POk(left, p)

or_parse(ts, p) ==
    LET e == Parse("and_parse", ts, p, <<>>) IN
    IF ~e.ok THEN e ELSE Parse("or_loop", ts, e.pos, e.ast)

\* an assignment that takes any left side and yields the right side for it
assignment_lax(ts, p) ==
    LET expr == Parse("or_parse", ts, p, <<>>) IN
    IF ~expr.ok THEN expr
    ELSE IF end(ts, expr.pos) THEN PErr("CouldNotReadToken", expr.pos)
    ELSE IF ts[expr.pos + 1].t = "Equal"
         THEN LET right_expr == Parse("assignment", ts, expr.pos + 1, <<>>) IN
              IF ~right_expr.ok THEN right_expr
              ELSE IF expr.ast.t = "Identifier"
                   THEN POk(AstAssign(expr.ast.i, right_expr.ast), right_expr.pos)
                   ELSE right_expr
         ELSE POk(expr.ast, expr.pos)

assignment(ts, p) ==
    LET expr == Parse("or_parse", ts, p, <<>>) IN
    IF ~expr.ok THEN expr
    ELSE IF end(ts, expr.pos) THEN PErr("CouldNotReadToken", expr.pos)
    ELSE IF ts[expr.pos + 1].t = "Equal"
         THEN IF expr.ast.t = "Identifier"
              THEN LET right_expr == Parse("assignment", ts, expr.pos + 1, <<>>) IN
                   IF ~right_expr.ok THEN right_expr
                   ELSE POk(AstAssign(expr.ast.i, right_expr.ast), right_expr.pos)
              ELSE PErr("NotFoundAstType", expr.pos + 1)
         ELSE POk(expr.ast, expr.pos)

expression(ts, p) == Parse("assignment", ts, p, <<>>)

expression_stmt(ts, p) ==
    LET expr == Parse("expression", ts, p, <<>>) IN
    IF ~expr.ok THEN expr
    ELSE LET c == consume(ts, expr.pos, Tok("SemiColon")) IN
         IF ~c.ok THEN c ELSE POk(expr.ast, c.pos)

\* the loop of Parser::block_statement, then its closing consume
block_statement(ts, p, ast) ==
    IF end(ts, p) THEN PErr("CouldNotReadToken", p)
    ELSE IF ts[p + 1].t = "RightBrace"
         THEN LET c == consume(ts, p, Tok("RightBrace")) IN
              IF ~c.ok THEN c ELSE POk(AstBlock(ast), c.pos)
         ELSE LET d == Parse("declaration", ts, p, <<>>) IN
              IF ~d.ok THEN d ELSE Parse("block_statement", ts, d.pos, Append(ast, d.ast))

print_statement(ts, p) ==
    LET expr == Parse("expression", ts, p, <<>>) IN
    IF ~expr.ok THEN expr
    ELSE LET c == consume(ts, expr.pos, Tok("SemiColon")) IN
         IF ~c.ok THEN c ELSE POk(AstPrint(expr.ast), c.pos)

if_statement(ts, p) ==
    LET c1 == consume(ts, p, Tok("LeftParen")) IN
    IF ~c1.ok THEN c1
    ELSE LET condition == Parse("expression", ts, c1.pos, <<>>) IN
    IF ~condition.ok THEN condition
    ELSE LET c2 == consume(ts, condition.pos, Tok("RightParen")) IN
    IF ~c2.ok THEN c2
    ELSE LET if_stmt == Parse("statement", ts, c2.pos, <<>>) IN
    IF ~if_stmt.ok THEN if_stmt
    ELSE IF ~end(ts, if_stmt.pos) /\ ts[if_stmt.pos + 1].t = "Else"
         THEN LET else_stmt == Parse("statement", ts, if_stmt.pos + 1, <<>>) IN
              IF ~else_stmt.ok THEN else_stmt
              ELSE POk(AstIf(condition.ast, if_stmt.ast, else_stmt.ast), else_stmt.pos)
         ELSE POk(AstIf(condition.ast, if_stmt.ast, AstNil), if_stmt.pos)

for_increment(ts, p) ==
    IF end(ts, p) THEN PErr("CouldNotReadToken", p)
    ELSE IF ts[p + 1].t = "RightParen" THEN POk(AstNil, p)
    ELSE Parse("expression", ts, p, <<>>)

\* a for condition that is nil when left out
for_condition_nil(ts, p) ==
    IF end(ts, p) THEN PErr("CouldNotReadToken", p)
    ELSE IF ts[p + 1].t = "SemiColon" THEN POk(AstNil, p)
    ELSE Parse("expression", ts, p, <<>>)

for_condition(ts, p) ==
    IF end(ts, p) THEN PErr("CouldNotReadToken", p)
    ELSE IF ts[p + 1].t = "SemiColon" THEN POk(AstTrue, p)
    ELSE Parse("expression", ts, p, <<>>)

for_initialize(ts, p) ==
    IF end(ts, p) THEN PErr("CouldNotReadToken", p)
    ELSE LET token == ts[p + 1] IN
         CASE token.t = "SemiColon" -> POk(AstNil, p + 1)
           [] token.t = "Var" -> Parse("var_declaration", ts, p + 1, <<>>)
           [] OTHER -> Parse("expression_stmt", ts, p, <<>>)

for_statement(ts, p) ==
    LET c1 == consume(ts, p, Tok("LeftParen")) IN
    IF ~c1.ok THEN c1
    ELSE LET initialize == Parse("for_initialize", ts, c1.pos, <<>>) IN
    IF ~initialize.ok THEN initialize
    ELSE LET condition == Parse("for_condition", ts, initialize.pos, <<>>) IN
    IF ~condition.ok THEN condition
    ELSE LET c2 == consume(ts, condition.pos, Tok("SemiColon")) IN
    IF ~c2.ok THEN c2
    ELSE LET increment == Parse("for_increment", ts, c2.pos, <<>>) IN
    IF ~increment.ok THEN increment
    ELSE LET c3 == consume(ts, increment.pos, Tok("RightParen")) IN
    IF ~c3.ok THEN c3
    ELSE LET stmt == Parse("statement", ts, c3.pos, <<>>) IN
    IF ~stmt.ok THEN stmt
    ELSE POk(AstBlock(<<initialize.ast,
                     AstWhile(condition.ast, AstBlock(<<stmt.ast, increment.ast>>))>>),
             stmt.pos)

while_statement(ts, p) ==
    LET c1 == consume(ts, p, Tok("LeftParen")) IN
    IF ~c1.ok THEN c1
    ELSE LET condition == Parse("expression", ts, c1.pos, <<>>) IN
    IF ~condition.ok THEN condition
    ELSE LET c2 == consume(ts, condition.pos, Tok("RightParen")) IN
    IF ~c2.ok THEN c2
    ELSE LET stmt == Parse("statement", ts, c2.pos, <<>>) IN
    IF ~stmt.ok THEN stmt
    ELSE POk(AstWhile(condition.ast, stmt.ast), stmt.pos)

return_statement(ts, p) ==
    IF end(ts, p) THEN PErr("CouldNotReadToken", p)
    ELSE LET expr == IF ts[p + 1].t = "SemiColon" THEN POk(AstNil, p)
                     ELSE Parse("expression", ts, p, <<>>)
         IN  IF ~expr.ok THEN expr
             ELSE LET c == consume(ts, expr.pos, Tok("SemiColon")) IN
                  IF ~c.ok THEN c ELSE POk(AstReturn(expr.ast), c.pos)

statement(ts, p) ==
    IF end(ts, p) THEN PErr("CouldNotReadToken", p)
    ELSE LET token == ts[p + 1] IN
         CASE token.t = "Print" -> Parse("print_statement", ts, p + 1, <<>>)
           [] token.t = "If" -> Parse("if_statement", ts, p + 1, <<>>)
           [] token.t = "While" -> Parse("while_statement", ts, p + 1, <<>>)
           [] token.t = "For" -> Parse("for_statement", ts, p + 1, <<>>)
           [] token.t = "Return" -> Parse("return_statement", ts, p + 1, <<>>)
           [] token.t = "LeftBrace" -> Parse("block_statement", ts, p + 1, <<>>)
           [] OTHER -> Parse("expression_stmt", ts, p, <<>>)

declaration_identifier(ts, p, identifier) ==
    IF end(ts, p) THEN PErr("NotFoundToken", p)
    ELSE LET token == ts[p + 1] IN
         CASE token.t = "Equal" ->
                LET expr == Parse("expression", ts, p + 1, <<>>) IN
                IF ~expr.ok THEN expr
                ELSE LET c == consume(ts, expr.pos, Tok("SemiColon")) IN
                     IF ~c.ok THEN c ELSE POk(AstVar(identifier, expr.ast), c.pos)
           [] token.t = "SemiColon" -> POk(AstVar(identifier, AstNil), p + 1)
           [] OTHER -> PErr("NotFoundToken", p + 1)

var_declaration(ts, p) ==
    IF end(ts, p) THEN PErr("CouldNotReadToken", p)
    ELSE IF ts[p + 1].t = "Identifier"
         THEN Parse("declaration_identifier", ts, p + 1, ts[p + 1].i)
         ELSE PErr("NotFoundToken", p + 1)

\* fun_one_parameter: an identifier, read through primary
fun_one_parameter(ts, p) ==
    IF end(ts, p) THEN PErr("CouldNotReadToken", p)
    ELSE IF ts[p + 1].t = "Identifier" THEN Parse("primary", ts, p, <<>>)
    ELSE PErr("NotFoundToken", p + 1)

\* one iteration of the loop of Parser::fun_parameters
fun_parameters_iter(ts, p, args) ==
    IF end(ts, p) THEN [k |-> "err", r |-> PErr("CouldNotReadToken", p)]
    ELSE LET token == ts[p + 1] IN
         CASE token.t = "RightParen" -> [k |-> "break", pos |-> p, args |-> args]
           [] token.t = "Comma" -> [k |-> "loop", pos |-> p + 1, args |-> args]
           [] OTHER ->
                LET one == Parse("fun_one_parameter", ts, p, <<>>) IN
                IF ~one.ok THEN [k |-> "err", r |-> one]
                ELSE [k |-> IF Len(args) + 1 >= MaxArgs THEN "break" ELSE "loop",
                      pos |-> one.pos, args |-> Append(args, one.ast)]

fun_parameters(ts, p, args) ==
    LET it == fun_parameters_iter(ts, p, args) IN
    CASE it.k = "err" -> it.r
      [] it.k = "break" -> POk(it.args, it.pos)
      [] OTHER -> Parse("fun_parameters", ts, it.pos, it.args)

\* Parser::fun_declaration after fun_parameters: `)`, `{`, the body
fun_declaration_body(ts, p, identifier, args) ==
    LET c2 == consume(ts, p, Tok("RightParen")) IN
    IF ~c2.ok THEN c2
    ELSE LET c3 == consume(ts, c2.pos, Tok("LeftBrace")) IN
    IF ~c3.ok THEN c3
    ELSE LET body == Parse("block_statement", ts, c3.pos, <<>>) IN
    IF ~body.ok THEN body
    ELSE POk(AstFun(identifier, args, body.ast), body.pos)

fun_declaration(ts, p) ==
    IF end(ts, p) THEN PErr("CouldNotReadToken", p)
    ELSE IF ts[p + 1].t # "Identifier" THEN PErr("NotFoundToken", p + 1)
    ELSE LET c1 == consume(ts, p + 1, Tok("LeftParen")) IN
    IF ~c1.ok THEN c1
    ELSE LET args == Parse("fun_parameters", ts, c1.pos, <<>>) IN
    IF ~args.ok THEN args
    ELSE fun_declaration_body(ts, args.pos, ts[p + 1].i, args.ast)

declaration(ts, p) ==
    IF end(ts, p) THEN PErr("CouldNotReadToken", p)
    ELSE LET token == ts[p + 1] IN
         CASE token.t = "Var" -> Parse("var_declaration", ts, p + 1, <<>>)
           [] token.t = "Fun" -> Parse("fun_declaration", ts, p + 1, <<>>)
           [] OTHER -> Parse("statement", ts, p, <<>>)

\* the call of the parser function named fn: x is its third argument, if any
Parse(fn, ts, p, x) ==
    CASE fn = "declaration" -> declaration(ts, p)
      [] fn = "fun_declaration" -> fun_declaration(ts, p)
      [] fn = "fun_parameters" -> fun_parameters(ts, p, x)
      [] fn = "fun_one_parameter" -> fun_one_parameter(ts, p)
      [] fn = "var_declaration" -> var_declaration(ts, p)
      [] fn = "declaration_identifier" -> declaration_identifier(ts, p, x)
      [] fn = "statement" -> statement(ts, p)
      [] fn = "return_statement" -> return_statement(ts, p)
      [] fn = "while_statement" -> while_statement(ts, p)
      [] fn = "for_statement" -> for_statement(ts, p)
      [] fn = "for_initialize" -> for_initialize(ts, p)
      [] fn = "for_condition" -> for_condition(ts, p)
      [] fn = "for_increment" -> for_increment(ts, p)
      [] fn = "if_statement" -> if_statement(ts, p)
      [] fn = "print_statement" -> print_statement(ts, p)
      [] fn = "block_statement" -> block_statement(ts, p, x)
      [] fn = "expression_stmt" -> expression_stmt(ts, p)
      [] fn = "expression" -> expression(ts, p)
      [] fn = "assignment" -> assignment(ts, p)
      [] fn = "or_parse" -> or_parse(ts, p)
      [] fn = "or_loop" -> or_loop(ts, p, x)
      [] fn = "and_parse" -> and_parse(ts, p)
      [] fn = "and_loop" -> and_loop(ts, p, x)
      [] fn = "equality" -> equality(ts, p)
      [] fn = "equality_loop" -> equality_loop(ts, p, x)
      [] fn = "comparison" -> comparison(ts, p)
      [] fn = "comparison_loop" -> comparison_loop(ts, p, x)
      [] fn = "term" -> term(ts, p)
      [] fn = "term_loop" -> term_loop(ts, p, x)
      [] fn = "factor" -> factor(ts, p)
      [] fn = "factor_loop" -> factor_loop(ts, p, x)
      [] fn = "unary" -> unary(ts, p)
      [] fn = "call" -> call(ts, p)
      [] fn = "arguments" -> arguments(ts, p, x)
      [] fn = "primary" -> primary(ts, p)

SyncKeywords == {"Class", "For", "Fun", "If", "Print", "Var", "Return", "While"}

RECURSIVE synchronize(_, _)
synchronize(ts, p) ==
    IF end(ts, p) THEN p
    ELSE LET token == ts[p + 1] IN
         CASE token.t = "SemiColon" -> p + 1
           [] token.t \in SyncKeywords -> p
           [] OTHER -> synchronize(ts, p + 1)

\* Parser::program from read position p with the statements res so far, as far as
\* n iterations: the program, or <<>> with done false where the loop goes on
RECURSIVE program_loop(_, _, _, _)
program_loop(ts, p, res, n) ==
    LET d == declaration(ts, p)
        pos == IF d.ok THEN d.pos ELSE synchronize(ts, back(d.pos))
        prog == IF d.ok THEN Append(res, d.ast) ELSE res
    IN  IF end(ts, pos) THEN [done |-> TRUE, result |-> prog]
        ELSE IF n = 0 THEN [done |-> FALSE, result |-> <<>>]
        ELSE program_loop(ts, pos, prog, n - 1)

program(ts) == program_loop(ts, 0, <<>>, Len(ts) + 1)

(***************************************************************************)
(* Environment (src/src/environment.rs).  A scope chain is a sequence of   *)
(* variable maps, innermost first: e[1] is `variables`, Tail(e) is         *)
(* `enclosing`, and the global scope is the chain of length one.           *)
(***************************************************************************)
VF64(f) == [k |-> "F64", f |-> f]
VString(s) == [k |-> "String", s |-> s]
VBool(b) == [k |-> "Bool", b |-> b]
UserFunc(args, body) == [k |-> "UserFunc", args |-> args, body |-> body]
EmbeddedFunc == [k |-> "EmbeddedFunc"]

NoVariables == [key \in {} |-> VBool(FALSE)]

new == <<NoVariables>>

with_enclosing(enclosing) == <<NoVariables>> \o enclosing

insert(variables, key, value) ==
    [x \in DOMAIN variables \cup {key} |-> IF x = key THEN value ELSE variables[x]]

\* a push that binds the key in the innermost scope, wherever it was bound
push_innermost(e, key, value) == [e EXCEPT ![1] = insert(e[1], key, value)]

RECURSIVE push(_, _, _)
push(e, key, value) ==
    IF key \in DOMAIN e[1] THEN [e EXCEPT ![1] = insert(e[1], key, value)]
    ELSE IF Len(e) > 1 THEN <<e[1]>> \o push(Tail(e), key, value)
    ELSE e

\* a define that overwrites the binding of an enclosing scope where there is one
define_overwriting(e, key, value) ==
    IF \E j \in 1..Len(e) : key \in DOMAIN e[j] THEN push(e, key, value)
    ELSE [e EXCEPT ![1] = insert(e[1], key, value)]

define(e, key, value) == [e EXCEPT ![1] = insert(e[1], key, value)]

\* get: the value of the first scope that has the key; where no scope has it
\* the chain ends in `enclosing.as_ref().unwrap()` on None, which panics
Some(v) == [k |-> "Some", value |-> v]
Panicked == [k |-> "Panic"]

RECURSIVE get(_, _)
get(e, key) ==
    IF key \in DOMAIN e[1] THEN Some(e[1][key])
    ELSE IF Len(e) > 1 THEN get(Tail(e), key)
    ELSE Panicked

(***************************************************************************)
(* ReturnType and the kind checks and downcasts (src/src/eval.rs)          *)
(***************************************************************************)
RBool(b) == [rt |-> "Bool", b |-> b]
RF64(f) == [rt |-> "F64", f |-> f]
RVoid == [rt |-> "Void"]
RString(s) == [rt |-> "String", s |-> s]
RReturn(r) == [rt |-> "Return", r |-> r]

RECURSIVE one_type_check(_, _)
one_type_check(operand, kind) ==
    IF operand.rt = "Return" THEN one_type_check(operand.r, kind)
    ELSE operand.rt = kind

one_type_check_string(operand) == one_type_check(operand, "String")
one_type_check_f64(operand) == one_type_check(operand, "F64")
one_type_check_bool(operand) == one_type_check(operand, "Bool")
one_type_check_void(operand) == one_type_check(operand, "Void")

type_check_string(left, right) ==
    one_type_check_string(left) /\ one_type_check_string(right)
type_check_f64(left, right) == one_type_check_f64(left) /\ one_type_check_f64(right)
type_check_bool(left, right) == one_type_check_bool(left) /\ one_type_check_bool(right)

\* a downcast yields the payload, looking through one Return, or panics
downcast_string(operand) ==
    CASE operand.rt = "String" -> Some(operand.s)
      [] operand.rt = "Return" /\ operand.r.rt = "String" -> Some(operand.r.s)
      [] OTHER -> Panicked
downcast_f64(operand) ==
    CASE operand.rt = "F64" -> Some(operand.f)
      [] operand.rt = "Return" /\ operand.r.rt = "F64" -> Some(operand.r.f)
      [] OTHER -> Panicked
downcast_bool(operand) ==
    CASE operand.rt = "Bool" -> Some(operand.b)
      [] operand.rt = "Return" /\ operand.r.rt = "Bool" -> Some(operand.r.b)
      [] OTHER -> Panicked

(***************************************************************************)
(* The operators on values (src/src/eval.rs).  A result is Ok(value),      *)
(* Err(runtime error) or a panic of the process.                           *)
(***************************************************************************)
VOk(v) == [st |-> "Ok", v |-> v]
VErr(e) == [st |-> "Err", v |-> e]
VPanic == [st |-> "Panic", v |-> [panic |-> TRUE]]
\* a value outside the numbers the model represents
VCut == [st |-> "Cut", v |-> [cut |-> TRUE]]

OperandType(o) == [err |-> "OperandType", o |-> o]
TwoOperandType(l, r) == [err |-> "TwoOperandType", l |-> l, r |-> r]
NotFoundVar(i) == [err |-> "NotFoundVar", name |-> i]
NotFoundFunc(i) == [err |-> "NotFoundFunc", name |-> i]
NotMatchArgsNum == [err |-> "NotMatchArgsNum"]

\* both downcasts of a pair, or the panic of either
Both(l, r) == l.k = "Some" /\ r.k = "Some"

\* the order of the characters of a text
Alphabet == <<"0", "1", "2", "3", "4", "5", "6", "7", "8", "9", "a", "b", "c">>
CharRank(c) == CHOOSE j \in 1..Len(Alphabet) : Alphabet[j] = c

RECURSIVE string_less(_, _)
string_less(a, b) ==
    IF b = <<>> THEN FALSE
    ELSE IF a = <<>> THEN TRUE
    ELSE IF Head(a) = Head(b) THEN string_less(Tail(a), Tail(b))
    ELSE CharRank(Head(a)) < CharRank(Head(b))

\* a plus that writes a one-digit number out to join it to a string
plus_coercing(left, right) ==
    IF type_check_f64(left, right)
    THEN LET l == downcast_f64(left) r == downcast_f64(right) IN
         IF Both(l, r) THEN VOk(RF64(l.value + r.value)) ELSE VPanic
    ELSE IF type_check_string(left, right)
    THEN LET l == downcast_string(left) r == downcast_string(right) IN
         IF Both(l, r) THEN VOk(RString(l.value \o r.value)) ELSE VPanic
    ELSE IF one_type_check_f64(left) /\ one_type_check_string(right)
    THEN LET l == downcast_f64(left) r == downcast_string(right) IN
         IF Both(l, r) THEN VOk(RString(<<Alphabet[(l.value % 10) + 1]>> \o r.value)) ELSE VPanic
    ELSE VErr(TwoOperandType(left, right))

plus(left, right) ==
    IF type_check_f64(left, right)
    THEN LET l == downcast_f64(left) r == downcast_f64(right) IN
         IF Both(l, r) THEN VOk(RF64(l.value + r.value)) ELSE VPanic
    ELSE IF type_check_string(left, right)
    THEN LET l == downcast_string(left) r == downcast_string(right) IN
         IF Both(l, r) THEN VOk(RString(l.value \o r.value)) ELSE VPanic
    ELSE VErr(TwoOperandType(left, right))

minus(left, right) ==
    IF type_check_f64(left, right)
    THEN LET l == downcast_f64(left) r == downcast_f64(right) IN
         IF Both(l, r) THEN VOk(RF64(l.value - r.value)) ELSE VPanic
    ELSE VErr(TwoOperandType(left, right))

mul(left, right) ==
    IF type_check_f64(left, right)
    THEN LET l == downcast_f64(left) r == downcast_f64(right) IN
         IF Both(l, r) THEN VOk(RF64(l.value * r.value)) ELSE VPanic
    ELSE VErr(TwoOperandType(left, right))

\* the quotient where it is an integer; other quotients are not represented
div(left, right) ==
    IF type_check_f64(left, right)
    THEN LET l == downcast_f64(left) r == downcast_f64(right) IN
         IF ~Both(l, r) THEN VPanic
         ELSE IF r.value = 0 \/ l.value % r.value # 0 THEN VCut
         ELSE VOk(RF64(l.value \div r.value))
    ELSE VErr(TwoOperandType(left, right))

unary_minus(operand) ==
    IF one_type_check_f64(operand)
    THEN LET o == downcast_f64(operand) IN
         IF o.k = "Some" THEN VOk(RF64(0 - o.value)) ELSE VPanic
    ELSE VErr(OperandType(operand))

\* a not for which zero and the empty string are falsy too
bang_zero(operand) ==
    IF one_type_check_bool(operand)
    THEN LET o == downcast_bool(operand) IN
         IF o.k = "Some" THEN VOk(RBool(~o.value)) ELSE VPanic
    ELSE IF one_type_check_void(operand) THEN VOk(RBool(TRUE))
    ELSE VOk(RBool(operand \in {RF64(0), RString(<<>>)}))

bang(operand) ==
    IF one_type_check_bool(operand)
    THEN LET o == downcast_bool(operand) IN
         IF o.k = "Some" THEN VOk(RBool(~o.value)) ELSE VPanic
    ELSE IF one_type_check_void(operand) THEN VOk(RBool(TRUE))
    ELSE VOk(RBool(FALSE))

\* a comparison: by kind of pair, the three orders given as operators
Compare(left, right, onF64(_, _), onString(_, _), onBool(_, _)) ==
    IF type_check_f64(left, right)
    THEN LET l == downcast_f64(left) r == downcast_f64(right) IN
         IF Both(l, r) THEN VOk(RBool(onF64(l.value, r.value))) ELSE VPanic
    ELSE IF type_check_string(left, right)
    THEN LET l == downcast_string(left) r == downcast_string(right) IN
         IF Both(l, r) THEN VOk(RBool(onString(l.value, r.value))) ELSE VPanic
    ELSE IF type_check_bool(left, right)
    THEN LET l == downcast_bool(left) r == downcast_bool(right) IN
         IF Both(l, r) THEN VOk(RBool(onBool(l.value, r.value))) ELSE VPanic
    ELSE VErr(TwoOperandType(left, right))

equal_equal(left, right) ==
    Compare(left, right, LAMBDA a, b : a = b, LAMBDA a, b : a = b, LAMBDA a, b : a = b)

bang_equal(left, right) ==
    LET ret == equal_equal(left, right) IN
    IF ret.st # "Ok" THEN ret
    ELSE IF ret.v.rt = "Bool" THEN VOk(RBool(~ret.v.b))
    ELSE VErr(OperandType(ret.v))

greater(left, right) ==
    Compare(left, right, LAMBDA a, b : a > b, LAMBDA a, b : string_less(b, a),
            LAMBDA a, b : a /\ ~b)

greater_equal(left, right) ==
    Compare(left, right, LAMBDA a, b : a >= b, LAMBDA a, b : ~string_less(a, b),
            LAMBDA a, b : a \/ ~b)

less(left, right) ==
    Compare(left, right, LAMBDA a, b : a < b, LAMBDA a, b : string_less(a, b),
            LAMBDA a, b : ~a /\ b)

less_equal(left, right) ==
    Compare(left, right, LAMBDA a, b : a <= b, LAMBDA a, b : ~string_less(b, a),
            LAMBDA a, b : ~a \/ b)

or_eval(left, right) ==
    IF type_check_bool(left, right)
    THEN LET l == downcast_bool(left) r == downcast_bool(right) IN
         IF Both(l, r) THEN VOk(RBool(l.value \/ r.value)) ELSE VPanic
    ELSE VErr(TwoOperandType(left, right))

and_eval(left, right) ==
    IF type_check_bool(left, right)
    THEN LET l == downcast_bool(left) r == downcast_bool(right) IN
         IF Both(l, r) THEN VOk(RBool(l.value /\ r.value)) ELSE VPanic
    ELSE VErr(TwoOperandType(left, right))

\* the operator an AstType of two operands is handed to by eval
BinaryOp(k, left, right) ==
    CASE k = "Plus" -> plus(left, right)
      [] k = "Minus" -> minus(left, right)
      [] k = "Mul" -> mul(left, right)
      [] k = "Div" -> div(left, right)
      [] k = "EqualEqual" -> equal_equal(left, right)
      [] k = "BangEqual" -> bang_equal(left, right)
      [] k = "Greater" -> greater(left, right)
      [] k = "Less" -> less(left, right)
      [] k = "GreaterEqual" -> greater_equal(left, right)
      [] k = "LessEqual" -> less_equal(left, right)
      [] k = "Or" -> or_eval(left, right)
      [] k = "And" -> and_eval(left, right)

BinaryKinds == {"Plus", "Minus", "Mul", "Div", "EqualEqual", "BangEqual", "Greater",
                "Less", "GreaterEqual", "LessEqual", "Or", "And"}

\* to_env_value: the Value stored for an operand
to_env_value(operand) ==
    IF one_type_check_string(operand)
    THEN LET d == downcast_string(operand) IN
         IF d.k = "Some" THEN Some(VString(d.value)) ELSE Panicked
    ELSE IF one_type_check_f64(operand)
    THEN LET d == downcast_f64(operand) IN
         IF d.k = "Some" THEN Some(VF64(d.value)) ELSE Panicked
    ELSE LET d == downcast_bool(operand) IN
         IF d.k = "Some" THEN Some(VBool(d.value)) ELSE Panicked

(***************************************************************************)
(* Output.  A line of the output sink is the text println! writes.         *)
(***************************************************************************)
Line(text) == [text |-> text]
ErrorLine(e) == [error |-> e]

Digit(d) == Alphabet[d + 1]

RECURSIVE fmt_nat(_)
fmt_nat(n) == IF n < 10 THEN <<Digit(n)>> ELSE fmt_nat(n \div 10) \o <<Digit(n % 10)>>

\* "{}" of an f64 that holds an integer
fmt_f64(f) == IF f < 0 THEN <<"-">> \o fmt_nat(0 - f) ELSE fmt_nat(f)

\* "{}" of a bool
fmt_bool(b) == IF b THEN <<"t", "r", "u", "e">> ELSE <<"f", "a", "l", "s", "e">>

\* eval::print: the lines it writes, or its panic
print(operand) ==
    IF one_type_check_f64(operand)
    THEN LET d == downcast_f64(operand) IN
         IF d.k = "Some" THEN Some(<<Line(fmt_f64(d.value))>>) ELSE Panicked
    ELSE IF one_type_check_string(operand)
    THEN LET d == downcast_string(operand) IN
         IF d.k = "Some" THEN Some(<<Line(d.value)>>) ELSE Panicked
    ELSE IF one_type_check_bool(operand)
    THEN LET d == downcast_bool(operand) IN
         IF d.k = "Some" THEN Some(<<Line(fmt_bool(d.value))>>) ELSE Panicked
    ELSE Some(<<>>)

\* embedded::func::clock
clock == <<Line(<<"c", "a", "l", "l", "e", "d", " ", "c", "l", "o", "c", "k">>)>>

(***************************************************************************)
(* eval (src/src/eval.rs).  eval(ast, e, w) evaluates ast against the      *)
(* scope chain e in the world w = [out, log]: out is the output sink, log  *)
(* records, for the properties, each finished block and call.  The result  *)
(* carries the scope chain and the world the evaluation leaves behind.     *)
(***************************************************************************)
Res(r, e, w) == [st |-> r.st, v |-> r.v, env |-> e, w |-> w]

Logged(w, entry) == [out |-> w.out, log |-> Append(w.log, entry)]
Printed(w, lines) == [out |-> w.out \o lines, log |-> w.log]

\* the process is gone (a panic), or the evaluation left the model's bounds
Aborted(r) == r.st \in {"Panic", "Cut"}

RECURSIVE eval(_, _, _), block(_, _, _), block_loop(_, _, _, _, _, _)
RECURSIVE if_eval(_, _, _, _, _), while_eval(_, _, _, _, _)
RECURSIVE call_eval(_, _, _, _), call_args(_, _, _, _, _), call_func(_, _, _, _, _)
RECURSIVE return_eval(_, _, _), var_decl(_, _, _, _)

print_stmt(operand, e, w) ==
    LET p == print(operand) IN
    IF p.k = "Some"
    THEN Res(VOk(RVoid), e, Logged(Printed(w, p.value), [op |-> "print_stmt"]))
    ELSE Res(VPanic, e, w)

\* what a lookup or an assignment of the name i did, for the properties
Lookup(op, i, e, r) ==
    [op |-> op, i |-> i, before |-> e, after |-> r.env, st |-> r.st, v |-> r.v]

identifier(i, e, w) ==
    LET val == get(e, i)
        r == IF val.k = "Panic" THEN Res(VPanic, e, w)
             ELSE CASE val.value.k = "F64" -> Res(VOk(RF64(val.value.f)), e, w)
                    [] val.value.k = "String" -> Res(VOk(RString(val.value.s)), e, w)
                    [] val.value.k = "Bool" -> Res(VOk(RBool(val.value.b)), e, w)
                    [] OTHER -> Res(VErr(NotFoundVar(i)), e, w)
    IN  [r EXCEPT !.w = Logged(w, Lookup("identifier", i, e, r))]

assign(i, right, e, w) ==
    LET val == get(e, i)
        value == to_env_value(right)
        r == IF val.k = "Panic" THEN Res(VPanic, e, w)
             ELSE IF value.k = "Panic" THEN Res(VPanic, e, w)
             ELSE Res(VOk(RVoid), push(e, i, value.value), w)
    IN  [r EXCEPT !.w = Logged(w, [op |-> "assign", i |-> i, right |-> right,
                                   before |-> e, after |-> r.env, st |-> r.st,
                                   v |-> r.v])]

var_decl(i, operand, e, w) ==
    LET right == eval(operand, e, w) IN
    IF right.st # "Ok" THEN right
    ELSE LET value == to_env_value(right.v) IN
         IF value.k = "Panic" THEN Res(VPanic, right.env, right.w)
         ELSE Res(VOk(RVoid), define(right.env, i, value.value), right.w)

\* the loop of block: k is the statement to evaluate, ret the last result,
\* rets the results so far
block_loop(ast_arr, k, block_env, w, ret, rets) ==
    IF k > Len(ast_arr)
    THEN [st |-> ret.st, v |-> ret.v, env |-> block_env, w |-> w, rets |-> rets]
    ELSE LET r == eval(ast_arr[k], block_env, w)
             seen == Append(rets, [st |-> r.st, v |-> r.v])
         IN  IF Aborted(r) THEN r
             ELSE IF r.st = "Ok" /\ r.v.rt = "Return"
             THEN [st |-> r.st, v |-> r.v, env |-> r.env, w |-> r.w, rets |-> seen]
             ELSE block_loop(ast_arr, k + 1, r.env, r.w, r, seen)

\* a block whose own bindings stay behind in the enclosing scope
block_leaking(ast_arr, e, w) ==
    LET run == block_loop(ast_arr, 1, with_enclosing(e), w, VOk(RVoid), <<>>) IN
    IF Aborted(run) THEN run
    ELSE LET own == run.env[1]
             enclosing == run.env[2]
             left == [x \in DOMAIN own \cup DOMAIN enclosing |->
                         IF x \in DOMAIN enclosing THEN enclosing[x] ELSE own[x]]
             after == <<left>> \o Tail(Tail(run.env))
         IN  [st |-> run.st, v |-> run.v, env |-> after,
              w |-> Logged(run.w, [op |-> "block", arr |-> ast_arr, rets |-> run.rets,
                                   before |-> e, after |-> after, own |-> own])]

block(ast_arr, e, w) ==
    LET run == block_loop(ast_arr, 1, with_enclosing(e), w, VOk(RVoid), <<>>) IN
    IF Aborted(run) THEN run
    ELSE LET after == Tail(run.env) IN
         [st |-> run.st, v |-> run.v, env |-> after,
          w |-> Logged(run.w, [op |-> "block", arr |-> ast_arr, rets |-> run.rets,
                               before |-> e, after |-> after, own |-> run.env[1]])]

if_eval(cond, if_stmt, else_stmt, e, w) ==
    LET c == eval(cond, e, w) IN
    IF c.st # "Ok" THEN c
    ELSE LET result_ == downcast_bool(c.v) IN
         IF result_.k = "Panic" THEN Res(VPanic, c.env, c.w)
         ELSE IF result_.value THEN eval(if_stmt, c.env, c.w)
         ELSE eval(else_stmt, c.env, c.w)

\* a loop that tests its condition only after the body
while_eval_until(cond, stmt, e, w, n) ==
    IF n >= MaxLoop THEN Res(VCut, e, w)
    ELSE LET s == eval(stmt, e, w) IN
         IF s.st # "Ok" THEN s
         ELSE LET c == eval(cond, s.env, s.w) IN
              IF c.st # "Ok" THEN c
              ELSE LET cond_ret == downcast_bool(c.v) IN
                   IF cond_ret.k = "Panic" THEN Res(VPanic, c.env, c.w)
                   ELSE IF ~cond_ret.value THEN Res(VOk(RVoid), c.env, c.w)
                   ELSE while_eval(cond, stmt, c.env, c.w, n + 1)

\* n: the iterations made so far
while_eval(cond, stmt, e, w, n) ==
    LET c == eval(cond, e, w) IN
    IF c.st # "Ok" THEN c
    ELSE LET cond_ret == downcast_bool(c.v) IN
         IF cond_ret.k = "Panic" THEN Res(VPanic, c.env, c.w)
         ELSE IF ~cond_ret.value THEN Res(VOk(RVoid), c.env, c.w)
         ELSE IF n >= MaxLoop THEN Res(VCut, c.env, c.w)
         ELSE LET s == eval(stmt, c.env, c.w) IN
              IF s.st # "Ok" THEN s
              ELSE while_eval(cond, stmt, s.env, s.w, n + 1)

\* args_val of call_eval: each argument evaluated and unwrapped in turn
call_args(arguments_, k, e, w, args_val) ==
    IF k > Len(arguments_) THEN [st |-> "Ok", v |-> args_val, env |-> e, w |-> w]
    ELSE LET a == eval(arguments_[k], e, w) IN
         IF Aborted(a) THEN a
         ELSE IF a.st = "Err" THEN Res(VPanic, a.env, a.w)
         ELSE call_args(arguments_, k + 1, a.env, a.w, Append(args_val, a.v))

call_eval(callee, arguments_, e, w) ==
    LET a == call_args(arguments_, 1, e, w, <<>>) IN
    IF Aborted(a) THEN a
    ELSE LET func == get(a.env, callee) IN
         IF func.k = "Panic" THEN Res(VPanic, a.env, a.w)
         ELSE CASE func.value.k = "UserFunc" ->
                     call_func(func.value.body, func.value.args, a.v, a.env, a.w)
                [] func.value.k = "EmbeddedFunc" ->
                     Res(VOk(RVoid), a.env, Printed(a.w, clock))
                [] OTHER -> Res(VErr(NotFoundFunc(callee)), a.env, a.w)

\* the parameters of call_func bound in block_env, or the panic of a downcast
RECURSIVE bind_args(_, _, _, _)
bind_args(args, args_val, k, block_env) ==
    IF k > Len(args) THEN Some(block_env)
    ELSE IF args[k].t # "Identifier" THEN bind_args(args, args_val, k + 1, block_env)
    ELSE LET arg == to_env_value(args_val[k]) IN
         IF arg.k = "Panic" THEN Panicked
         ELSE bind_args(args, args_val, k + 1, define(block_env, args[k].i, arg.value))

\* a call that hands the enclosing scopes back also when its body failed
call_func_folding(body, args, args_val, e, w) ==
    IF Len(args) # Len(args_val) THEN Res(VErr(NotMatchArgsNum), e, w)
    ELSE LET block_env == bind_args(args, args_val, 1, with_enclosing(e)) IN
         IF block_env.k = "Panic" THEN Res(VPanic, e, w)
         ELSE LET result_ == eval(body, block_env.value, w) IN
              IF Aborted(result_) THEN result_
              ELSE IF result_.st = "Err" THEN Res(result_, Tail(result_.env), result_.w)
              ELSE [st |-> "Ok", v |-> result_.v, env |-> Tail(result_.env),
                    w |-> Logged(result_.w, [op |-> "call_func", body |-> body,
                                             ret |-> result_.v, v |-> result_.v])]

\* a call whose body sees the global scope only
call_func_static(body, args, args_val, e, w) ==
    IF Len(args) # Len(args_val) THEN Res(VErr(NotMatchArgsNum), e, w)
    ELSE LET block_env == bind_args(args, args_val, 1, with_enclosing(<<e[Len(e)]>>)) IN
         IF block_env.k = "Panic" THEN Res(VPanic, e, w)
         ELSE LET result_ == eval(body, block_env.value, w) IN
              IF Aborted(result_) THEN result_
              ELSE IF result_.st = "Err" THEN Res(result_, e, result_.w)
              ELSE [st |-> "Ok", v |-> result_.v, env |-> e,
                    w |-> Logged(result_.w, [op |-> "call_func", body |-> body,
                                             ret |-> result_.v, v |-> result_.v])]

\* a call that fails only where arguments are missing and ignores spare ones
call_func_lenient(body, args, args_val, e, w) ==
    IF Len(args) > Len(args_val) THEN Res(VErr(NotMatchArgsNum), e, w)
    ELSE LET block_env == bind_args(args, args_val, 1, with_enclosing(e)) IN
         IF block_env.k = "Panic" THEN Res(VPanic, e, w)
         ELSE LET result_ == eval(body, block_env.value, w) IN
              IF Aborted(result_) THEN result_
              ELSE IF result_.st = "Err" THEN Res(result_, e, result_.w)
              ELSE [st |-> "Ok", v |-> result_.v, env |-> Tail(result_.env),
                    w |-> Logged(result_.w, [op |-> "call_func", body |-> body,
                                             ret |-> result_.v, v |-> result_.v])]

call_func(body, args, args_val, e, w) ==
    IF Len(args) # Len(args_val) THEN Res(VErr(NotMatchArgsNum), e, w)
    ELSE LET block_env == bind_args(args, args_val, 1, with_enclosing(e)) IN
         IF block_env.k = "Panic" THEN Res(VPanic, e, w)
         ELSE LET result_ == eval(body, block_env.value, w) IN
              IF Aborted(result_) THEN result_
              ELSE IF result_.st = "Err" THEN Res(result_, e, result_.w)
              ELSE [st |-> "Ok", v |-> result_.v, env |-> Tail(result_.env),
                    w |-> Logged(result_.w, [op |-> "call_func", body |-> body,
                                             ret |-> result_.v, v |-> result_.v])]

return_eval(operand, e, w) ==
    LET ret == eval(operand, e, w) IN
    IF ret.st # "Ok" THEN ret ELSE Res(VOk(RReturn(ret.v)), ret.env, ret.w)

fun_eval(fun_name, arguments_, block_, e, w) ==
    Res(VOk(RVoid), define(e, fun_name, UserFunc(arguments_, block_)), w)

\* and / or that leave the right operand alone where the left one decides
eval_binary_short(ast, e, w) ==
    LET l == eval(ast.l, e, w) IN
    IF l.st # "Ok" THEN l
    ELSE IF ast.t = "And" /\ l.v = RBool(FALSE) THEN l
    ELSE IF ast.t = "Or" /\ l.v = RBool(TRUE) THEN l
    ELSE LET r == eval(ast.r, l.env, l.w) IN
         IF r.st # "Ok" THEN r ELSE Res(BinaryOp(ast.t, l.v, r.v), r.env, r.w)

\* the arms of eval for two operands: op(eval(l, env)?, eval(r, env)?)
eval_binary(ast, e, w) ==
    LET l == eval(ast.l, e, w) IN
    IF l.st # "Ok" THEN l
    ELSE LET r == eval(ast.r, l.env, l.w) IN
         IF r.st # "Ok" THEN r ELSE Res(BinaryOp(ast.t, l.v, r.v), r.env, r.w)

eval(ast, e, w) ==
    CASE ast.t = "True" -> Res(VOk(RBool(TRUE)), e, w)
      [] ast.t = "False" -> Res(VOk(RBool(FALSE)), e, w)
      [] ast.t = "Nil" -> Res(VOk(RVoid), e, w)
      [] ast.t = "Number" -> Res(VOk(RF64(ast.n)), e, w)
      [] ast.t = "String" -> Res(VOk(RString(ast.s)), e, w)
      [] ast.t = "Bang" ->
           LET o == eval(ast.o, e, w) IN
           IF o.st # "Ok" THEN o ELSE Res(bang(o.v), o.env, o.w)
      [] ast.t = "UnaryMinus" ->
           LET o == eval(ast.o, e, w) IN
           IF o.st # "Ok" THEN o ELSE Res(unary_minus(o.v), o.env, o.w)
      [] ast.t \in BinaryKinds -> eval_binary(ast, e, w)
      [] ast.t = "Print" ->
           LET o == eval(ast.o, e, w) IN
           IF o.st # "Ok" THEN o ELSE print_stmt(o.v, o.env, o.w)
      [] ast.t = "Var" -> var_decl(ast.i, ast.o, e, w)
      [] ast.t = "Identifier" -> identifier(ast.i, e, w)
      [] ast.t = "Assign" ->
           LET o == eval(ast.o, e, w) IN
           IF o.st # "Ok" THEN o ELSE assign(ast.i, o.v, o.env, o.w)
      [] ast.t = "Grouping" -> eval(ast.o, e, w)
      [] ast.t = "Block" -> block(ast.arr, e, w)
      [] ast.t = "If" -> if_eval(ast.cond, ast.if_stmt, ast.else_stmt, e, w)
      [] ast.t = "While" -> while_eval(ast.cond, ast.stmt, e, w, 0)
      [] ast.t = "Call" -> call_eval(ast.callee, ast.arguments, e, w)
      [] ast.t = "Fun" -> fun_eval(ast.i, ast.args, ast.body, e, w)
      [] ast.t = "Return" -> return_eval(ast.o, e, w)

\* embedded::func::register_func
register_func(e) == define(e, "clock", EmbeddedFunc)

(***************************************************************************)
(* Scripts, as the token sequences the scanner hands to the parser         *)
(* (src/src/scanner.rs ends every sequence with Eof).                      *)
(***************************************************************************)
Semi == <<Tok("SemiColon")>>
Braces(body) == <<Tok("LeftBrace")>> \o body \o <<Tok("RightBrace")>>

\* body inside d pairs of braces
RECURSIVE Nest(_, _)
Nest(d, body) == IF d = 0 THEN body ELSE Braces(Nest(d - 1, body))

VarStmt(i, n) == <<Tok("Var"), TId(i), Tok("Equal"), TNum(n)>> \o Semi
AssignStmt(i, n) == <<TId(i), Tok("Equal"), TNum(n)>> \o Semi
PrintId(i) == <<Tok("Print"), TId(i)>> \o Semi
PrintNum(n) == <<Tok("Print"), TNum(n)>> \o Semi
ReturnNum(n) == <<Tok("Return"), TNum(n)>> \o Semi
CallExpr(f) == <<TId(f), Tok("LeftParen"), Tok("RightParen")>>
FunDecl(f, body) == <<Tok("Fun")>> \o CallExpr(f) \o Braces(body)
ForPrint(i, n) ==
    <<Tok("For"), Tok("LeftParen"), Tok("Var"), TId(i), Tok("Equal"), TNum(0)>> \o Semi
    \o <<TId(i), Tok("Less"), TNum(n)>> \o Semi
    \o <<TId(i), Tok("Equal"), TId(i), Tok("Plus"), TNum(1), Tok("RightParen")>>
    \o PrintId(i)

\* the statements the generated scripts are put together from
Pool ==
    { VarStmt("a", 1),
      AssignStmt("a", 2),
      PrintId("a"),
      Braces(VarStmt("a", 3) \o PrintId("a") \o AssignStmt("a", 4) \o PrintId("a")),
      Nest(2, AssignStmt("a", 5)),
      FunDecl("f", Nest(2, ReturnNum(7) \o PrintNum(9)) \o PrintNum(6)),
      Braces(CallExpr("f") \o Semi \o PrintNum(8)),
      <<Tok("Print")>> \o CallExpr("f") \o Semi,
      <<Tok("Minus"), Tok("True")>> \o Semi,
      PrintId("x"),
      AssignStmt("x", 1),
      ForPrint("i", 2),
      <<Tok("LeftParen"), TNum(1)>> \o Semi,
      <<TNum(1), Tok("Plus"), TNum(2)>> \o Semi,
      Braces(VarStmt("b", 1) \o FunDecl("g", AssignStmt("a", 6)) \o CallExpr("g") \o Semi) }

\* most statements of a generated script
MaxStatements == 2

RECURSIVE PoolScripts(_)
PoolScripts(n) ==
    IF n = 0 THEN {<<>>}
    ELSE LET shorter == PoolScripts(n - 1) IN
         shorter \cup {s \o stmt : s \in {x \in shorter : TRUE}, stmt \in Pool}

\* an assignment, a shadowing declaration, a for and a return, each at every depth
DepthScripts ==
    UNION {
      { VarStmt("a", 1) \o Nest(d, AssignStmt("a", v)) \o PrintId("a"),
        VarStmt("a", 1)
          \o Nest(d, VarStmt("a", v) \o PrintId("a") \o AssignStmt("a", v + 1)
                     \o PrintId("a"))
          \o PrintId("a"),
        VarStmt("a", 1) \o Nest(d, VarStmt("b", v) \o AssignStmt("a", v)) \o PrintId("a"),
        VarStmt("a", 1) \o Nest(d, VarStmt("b", v) \o ForPrint("i", v)) \o PrintId("a"),
        FunDecl("f", Nest(d, ReturnNum(v) \o PrintNum(9)) \o PrintNum(6))
          \o <<Tok("Print")>> \o CallExpr("f") \o Semi
          \o Nest(d, CallExpr("f") \o Semi \o PrintNum(8)) }
      : d \in 1..MaxDepth, v \in {2, 3} }

\* the binary operator tokens, and the precedence level of each: 1 binds
\* loosest (or), 6 tightest (* and /)
BinaryTokens ==
    {"Or", "And", "EqualEqual", "BangEqual", "Greater", "GreaterEqual", "Less",
     "LessEqual", "Plus", "Minus", "Star", "Slash"}

Level(k) ==
    CASE k = "Or" -> 1
      [] k = "And" -> 2
      [] k \in {"EqualEqual", "BangEqual"} -> 3
      [] k \in {"Greater", "GreaterEqual", "Less", "LessEqual"} -> 4
      [] k \in {"Plus", "Minus"} -> 5
      [] OTHER -> 6

\* a op1 b op2 c;
Expr3(a, op1, b, op2, c) == <<TNum(a), Tok(op1), TNum(b), Tok(op2), TNum(c)>> \o Semi

\* two operators between three numbers, every pair of operators
ExprScripts ==
    {Expr3(8, op1, 4, op2, 2) : op1 \in BinaryTokens, op2 \in BinaryTokens}
    \cup {Expr3(10, "Minus", 3, "Minus", 1), Expr3(2, "Plus", 3, "Star", 1)}

\* left sides of an assignment that are no bare identifier: a literal, a
\* grouping, a binary expression and a call
BadLeftSides ==
    { <<TNum(1)>>,
      <<Tok("LeftParen"), TId("a"), Tok("RightParen")>>,
      <<TId("a"), Tok("Plus"), TNum(1)>>,
      CallExpr("f") }

\* a = b = 1; and, for each of the left sides, the assignment of 2 to it with
\* print 5; after it
AssignScripts ==
    {VarStmt("a", 0) \o VarStmt("b", 0) \o <<TId("a"), Tok("Equal")>> \o AssignStmt("b", 1),
     <<TId("a"), Tok("Equal")>> \o AssignStmt("b", 1)}
    \cup {lhs \o <<Tok("Equal"), TNum(2)>> \o Semi \o PrintNum(5) : lhs \in BadLeftSides}

\* for (init; cond; incr) print i; with init "var" (var i = 0), "expr" (i = 0)
\* or "none", and with cond (i < 2) and incr (i = i + 1) there or left out
ForTokens(init, cond, incr) ==
    <<Tok("For"), Tok("LeftParen")>>
    \o (CASE init = "var" -> VarStmt("i", 0)
           [] init = "expr" -> AssignStmt("i", 0)
           [] OTHER -> Semi)
    \o (IF cond THEN <<TId("i"), Tok("Less"), TNum(2)>> ELSE <<>>) \o Semi
    \o (IF incr THEN <<TId("i"), Tok("Equal"), TId("i"), Tok("Plus"), TNum(1)>> ELSE <<>>)
    \o <<Tok("RightParen")>> \o PrintId("i")

ForShapes == {"var", "expr", "none"} \X BOOLEAN \X BOOLEAN

ForScripts == {ForTokens(f[1], f[2], f[3]) : f \in ForShapes} \cup {ForPrint("i", 3)}

\* two literals of the kinds number, string and boolean, and nil
Literals ==
    {TNum(4), TNum(2), TStr(<<"a">>), TStr(<<"b">>), Tok("True"), Tok("False"), Tok("Nil")}

\* x op y; for the arithmetic operators and ==, every pair of literals
PairScripts ==
    {<<x, Tok(op), y>> \o Semi :
        x \in Literals, y \in Literals,
        op \in {"Plus", "Minus", "Star", "Slash", "EqualEqual"}}

\* fun f() { print 1; return b; } l op f(); for and / or and booleans l, b
LogicScripts ==
    {FunDecl("f", PrintNum(1) \o <<Tok("Return"), Tok(b)>> \o Semi)
        \o <<Tok(l), Tok(op)>> \o CallExpr("f") \o Semi :
        l \in {"True", "False"}, b \in {"True", "False"}, op \in {"And", "Or"}}

\* fun f(x, ...) { body } with the parameters params
FunDeclWith(f, params, body) ==
    <<Tok("Fun"), TId(f), Tok("LeftParen")>> \o params \o <<Tok("RightParen")>> \o Braces(body)

\* f(args);
CallStmt(f, args) == <<TId(f), Tok("LeftParen")>> \o args \o <<Tok("RightParen")>> \o Semi

\* var a = 1; var b = 2; fun f(x) { print x; } and a call of f with no, one,
\* two or three of a, b as arguments, in both orders
CallScripts ==
    {VarStmt("a", 1) \o VarStmt("b", 2) \o FunDeclWith("f", <<TId("x")>>, PrintId("x"))
        \o CallStmt("f", args) :
        args \in { <<>>, <<TId("a")>>, <<TId("b")>>,
                   <<TId("a"), Tok("Comma"), TId("b")>>,
                   <<TId("b"), Tok("Comma"), TId("a")>>,
                   <<TId("b"), Tok("Comma"), TId("a"), Tok("Comma"), TId("b")>> }}

\* calls of a name that nothing declares, at top level, after another
\* statement and before one, and a call of a name that holds a number
CalleeScripts ==
    { CallStmt("g", <<>>),
      VarStmt("a", 1) \o CallStmt("g", <<>>),
      CallStmt("g", <<>>) \o PrintNum(5),
      VarStmt("a", 1) \o CallStmt("a", <<>>) \o PrintNum(5) }

\* var x = 1; fun f() { print x; } { var x = n; f(); } and the same with the
\* call made outside of any block
ScopeScripts ==
    {VarStmt("x", 1) \o FunDecl("f", PrintId("x"))
        \o Braces(VarStmt("x", n) \o CallStmt("f", <<>>)) : n \in 2..3}
    \cup {VarStmt("x", 1) \o FunDecl("f", PrintId("x")) \o CallStmt("f", <<>>)}

\* var a; alone, followed by a read of a, and inside a block
NilScripts ==
    { <<Tok("Var"), TId("a")>> \o Semi,
      <<Tok("Var"), TId("a")>> \o Semi \o <<TId("a")>> \o Semi,
      <<Tok("Var"), TId("a")>> \o Semi \o PrintNum(5),
      Braces(<<Tok("Var"), TId("a")>> \o Semi \o PrintNum(5)) }

\* !x; for the literals and for zero and the empty string
BangScripts ==
    {<<Tok("Bang"), x>> \o Semi : x \in Literals \cup {TNum(0), TStr(<<>>)}}

\* fun f() { var i = 0; while (i < 2) { i = i + 1; return 7; } return 9; } print f();
\* and fun f() { for (var i = 0; i < 2; i = i + 1) { return 7; } return 9; } print f();
LoopReturnScripts ==
    { FunDecl("f", VarStmt("i", 0)
                   \o <<Tok("While"), Tok("LeftParen"), TId("i"), Tok("Less"), TNum(2),
                        Tok("RightParen")>>
                   \o Braces(<<TId("i"), Tok("Equal"), TId("i"), Tok("Plus"), TNum(1)>> \o Semi
                             \o ReturnNum(7))
                   \o ReturnNum(9))
          \o <<Tok("Print")>> \o CallExpr("f") \o Semi,
      FunDecl("f", <<Tok("For"), Tok("LeftParen")>> \o VarStmt("i", 0)
                   \o <<TId("i"), Tok("Less"), TNum(2)>> \o Semi
                   \o <<TId("i"), Tok("Equal"), TId("i"), Tok("Plus"), TNum(1),
                        Tok("RightParen")>>
                   \o Braces(ReturnNum(7))
                   \o ReturnNum(9))
          \o <<Tok("Print")>> \o CallExpr("f") \o Semi }

\* { true + 1; print 2; } and the same one block deeper, with a declaration
\* after the failure, and with the failure last
FailingBlockScripts ==
    { Braces(<<Tok("True"), Tok("Plus"), TNum(1)>> \o Semi \o PrintNum(2)),
      Nest(2, <<Tok("True"), Tok("Plus"), TNum(1)>> \o Semi \o PrintNum(2)),
      VarStmt("a", 1)
          \o Braces(<<Tok("True"), Tok("Plus"), TNum(1)>> \o Semi \o AssignStmt("a", 2)),
      Braces(PrintNum(2) \o <<Tok("True"), Tok("Plus"), TNum(1)>> \o Semi) }

\* var a = 1; fun f() { a = n; true + 1; } f(); print a; and the same with the
\* call made from a block
FailingCallScripts ==
    {VarStmt("a", 1)
        \o FunDecl("f", AssignStmt("a", n) \o <<Tok("True"), Tok("Plus"), TNum(1)>> \o Semi)
        \o stmt \o PrintId("a") :
        n \in 2..3, stmt \in {CallStmt("f", <<>>), Braces(CallStmt("f", <<>>))}}

\* fun g() { return 1; } fun f() { return g(); } followed by f(); or print f();
\* or f() + 1;
ReturnCallScripts ==
    {FunDecl("g", ReturnNum(1))
        \o FunDecl("f", <<Tok("Return")>> \o CallExpr("g") \o Semi)
        \o use :
        use \in { CallStmt("f", <<>>),
                  <<Tok("Print")>> \o CallStmt("f", <<>>),
                  CallExpr("f") \o <<Tok("Plus"), TNum(1)>> \o Semi }}

Scripts ==
    {s \o <<Tok("Eof")>> :
        s \in PoolScripts(MaxStatements) \cup DepthScripts \cup ExprScripts
               \cup AssignScripts \cup ForScripts \cup PairScripts \cup LogicScripts
               \cup CallScripts
               \cup CalleeScripts
               \cup ScopeScripts
               \cup NilScripts
               \cup BangScripts
               \cup LoopReturnScripts
               \cup FailingBlockScripts
               \cup FailingCallScripts
               \cup ReturnCallScripts}

\* most left parentheses of a token sequence
MaxParens == 1

ParseTokens ==
    {TId("f"), TNum(8), Tok("LeftParen"), Tok("RightParen"), Tok("SemiColon"), Tok("Print")}

RECURSIVE TokenSeqs(_)
TokenSeqs(n) ==
    IF n = 0 THEN {<<>>}
    ELSE LET shorter == TokenSeqs(n - 1) IN
         shorter \cup {Append(s, tk) : s \in shorter, tk \in ParseTokens}

\* every token sequence of at most MaxTokens tokens over ParseTokens that holds
\* at most MaxParens left parentheses, with the Eof the scanner ends it with
ParseInputs ==
    {s \o <<Tok("Eof")>> :
        s \in {x \in TokenSeqs(MaxTokens) :
                  Cardinality({k \in 1..Len(x) : x[k].t = "LeftParen"}) <= MaxParens}}

(***************************************************************************)
(* run_script (src/src/main.rs): Parser::program, then the statement loop. *)
(* pc is "parse" inside Parser::program, "eval" inside the statement loop, *)
(* "done" after it and "panic" once the process has panicked.  iters       *)
(* counts the iterations Parser::program has made, idx the statements      *)
(* evaluated; hist keeps, for the properties, what each statement did.     *)
(***************************************************************************)
MachineInit ==
    /\ read_pos = 0
    /\ result = <<>>
    /\ iters = 0
    /\ pc = "parse"
    /\ idx = 0
    /\ env = register_func(new)
    /\ out = <<>>
    /\ hist = <<>>
    /\ list = <<>>

Init == tokens \in Scripts /\ MachineInit

ParseInit == tokens \in ParseInputs /\ MachineInit

\* the iterations of Parser::program the model follows
CanIterate == pc = "parse" /\ iters <= Len(tokens) + 1

\* `if self.end() { break; }`, then the statement loop over the program
AfterIteration(p, prog) ==
    /\ read_pos' = p
    /\ result' = prog
    /\ iters' = iters + 1
    /\ pc' = IF ~end(tokens, p) THEN "parse" ELSE IF prog = <<>> THEN "done" ELSE "eval"
    /\ UNCHANGED <<tokens, idx, env, out, hist, list>>

\* declaration() succeeded: result.push(parse_result)
ProgramPush ==
    /\ CanIterate
    /\ LET d == declaration(tokens, read_pos) IN
       /\ d.ok
       /\ AfterIteration(d.pos, Append(result, d.ast))

\* declaration() failed: self.back(); self.synchronize()
ProgramRecover ==
    /\ CanIterate
    /\ LET d == declaration(tokens, read_pos) IN
       /\ ~d.ok
       /\ d.pos > 0
       /\ AfterIteration(synchronize(tokens, back(d.pos)), result)

\* declaration() failed at position 0 and back() subtracts from 0:
\* with overflow checks the process panics
ProgramBackPanics ==
    /\ CanIterate
    /\ LET d == declaration(tokens, read_pos) IN
       /\ ~d.ok
       /\ d.pos = 0
       /\ pc' = "panic"
       /\ iters' = iters + 1
       /\ UNCHANGED <<tokens, read_pos, result, idx, env, out, hist, list>>

\* the same without overflow checks: read_pos wraps
ProgramBackWraps ==
    /\ CanIterate
    /\ LET d == declaration(tokens, read_pos) IN
       /\ ~d.ok
       /\ d.pos = 0
       /\ AfterIteration(synchronize(tokens, back(d.pos)), result)

\* the statement the loop is at, evaluated against env
Current == eval(result[idx + 1], env, [out |-> out, log |-> <<>>])

\* what run_script itself writes for the evaluated statement
Written(r) ==
    CASE r.st = "Ok" /\ print(r.v).k = "Some" -> print(r.v).value
      [] r.st = "Err" -> <<ErrorLine(r.v.err)>>
      [] OTHER -> <<>>

\* the record of a statement: lines are all the lines written for it
Entry(r) == [ast |-> result[idx + 1], st |-> r.st, v |-> r.v, before |-> env,
             after |-> r.env, log |-> r.w.log,
             lines |-> SubSeq(r.w.out, Len(out) + 1, Len(r.w.out)) \o Written(r)]

Advance ==
    /\ idx' = idx + 1
    /\ pc' = IF idx + 1 = Len(result) THEN "done" ELSE "eval"
    /\ UNCHANGED <<tokens, read_pos, result, iters, list>>

\* Ok(result) => eval::print(result)
EvalOk ==
    /\ pc = "eval"
    /\ LET r == Current IN
       /\ r.st = "Ok"
       /\ print(r.v).k = "Some"
       /\ env' = r.env
       /\ out' = r.w.out \o print(r.v).value
       /\ hist' = Append(hist, Entry(r))
    /\ Advance

\* Err(err) => println!("{:?}", err)
EvalErr ==
    /\ pc = "eval"
    /\ LET r == Current IN
       /\ r.st = "Err"
       /\ env' = r.env
       /\ out' = Append(r.w.out, ErrorLine(r.v.err))
       /\ hist' = Append(hist, Entry(r))
    /\ Advance

\* a panic inside eval or inside eval::print ends the process
EvalPanic ==
    /\ pc = "eval"
    /\ LET r == Current IN
       /\ \/ r.st = "Panic"
          \/ r.st = "Ok" /\ print(r.v).k = "Panic"
       /\ out' = r.w.out
       /\ hist' = Append(hist, [Entry(r) EXCEPT !.st = "Panic"])
    /\ pc' = "panic"
    /\ UNCHANGED <<tokens, read_pos, result, iters, idx, env, list>>

ParseNext == ProgramPush \/ ProgramRecover \/ ProgramBackPanics \/ ProgramBackWraps

Next == ParseNext \/ EvalOk \/ EvalErr \/ EvalPanic

Spec == Init /\ [][Next]_vars

ParseSpec == ParseInit /\ [][ParseNext]_vars

(***************************************************************************)
(* The loops of Parser::arguments and Parser::fun_parameters, an iteration *)
(* a step, on lists about as long as the cap: the parser stands behind the *)
(* `(` of a call or of a function declaration, list is the local vector    *)
(* `arguments`, and pc is the loop the parser is in, "parsed" with the     *)
(* statement in result, or "parse_error".                                  *)
(***************************************************************************)
\* how far from MaxArgs the lengths of the lists are
Margin == 2

ListSizes == (MaxArgs - Margin)..(MaxArgs + Margin)

\* n items with commas between them, n >= 1
Separated(item, n) == [j \in 1..(2 * n - 1) |-> IF j % 2 = 1 THEN item ELSE Tok("Comma")]

\* f(8, ..., 8); with n arguments
CallTokens(n) ==
    <<TId("f"), Tok("LeftParen")>> \o Separated(TNum(8), n)
    \o <<Tok("RightParen"), Tok("SemiColon"), Tok("Eof")>>

\* fun f(a, ..., a) {} with n parameters
FunTokens(n) ==
    <<Tok("Fun"), TId("f"), Tok("LeftParen")>> \o Separated(TId("a"), n)
    \o <<Tok("RightParen"), Tok("LeftBrace"), Tok("RightBrace"), Tok("Eof")>>

ListInit ==
    /\ \E n \in ListSizes :
           \/ tokens = CallTokens(n) /\ read_pos = 2 /\ pc = "arguments"
           \/ tokens = FunTokens(n) /\ read_pos = 3 /\ pc = "fun_parameters"
    /\ result = <<>>
    /\ iters = 0
    /\ idx = 0
    /\ env = register_func(new)
    /\ out = <<>>
    /\ hist = <<>>
    /\ list = <<>>

\* an iteration of the loop of Parser::arguments
ArgumentsIter ==
    /\ pc = "arguments"
    /\ LET it == arguments_iter(tokens, read_pos, list) IN
       /\ read_pos' = it.pos
       /\ list' = it.args
       /\ pc' = CASE it.k = "err" -> "parse_error"
                  [] it.k = "break" -> "arguments_close"
                  [] OTHER -> "arguments"
    /\ iters' = iters + 1
    /\ UNCHANGED <<tokens, result, idx, env, out, hist>>

\* the consume after the loop, and the Call of Parser::call
ArgumentsClose ==
    /\ pc = "arguments_close"
    /\ LET r == arguments_close(tokens, read_pos, list) IN
       /\ read_pos' = r.pos
       /\ pc' = IF r.ok THEN "parsed" ELSE "parse_error"
       /\ result' = IF r.ok THEN <<AstCall(tokens[1].i, r.ast)>> ELSE result
    /\ UNCHANGED <<tokens, iters, idx, env, out, hist, list>>

\* an iteration of the loop of Parser::fun_parameters
FunParametersIter ==
    /\ pc = "fun_parameters"
    /\ LET it == fun_parameters_iter(tokens, read_pos, list) IN
       /\ read_pos' = IF it.k = "err" THEN it.r.pos ELSE it.pos
       /\ list' = IF it.k = "err" THEN list ELSE it.args
       /\ pc' = CASE it.k = "err" -> "parse_error"
                  [] it.k = "break" -> "fun_declaration_body"
                  [] OTHER -> "fun_parameters"
    /\ iters' = iters + 1
    /\ UNCHANGED <<tokens, result, idx, env, out, hist>>

\* Parser::fun_declaration after fun_parameters has returned the list
FunDeclarationBody ==
    /\ pc = "fun_declaration_body"
    /\ LET r == fun_declaration_body(tokens, read_pos, tokens[2].i, list) IN
       /\ read_pos' = r.pos
       /\ pc' = IF r.ok THEN "parsed" ELSE "parse_error"
       /\ result' = IF r.ok THEN <<r.ast>> ELSE result
    /\ UNCHANGED <<tokens, iters, idx, env, out, hist, list>>

ListNext == ArgumentsIter \/ ArgumentsClose \/ FunParametersIter \/ FunDeclarationBody

ListSpec == ListInit /\ [][ListNext]_vars

(***************************************************************************)
(* Properties.  The log of a top-level statement holds, in the order they  *)
(* finished, the blocks, calls, lookups and assignments of its evaluation. *)
(***************************************************************************)
ForAllLog(P(_)) ==
    \A j \in 1..Len(hist) : \A k \in 1..Len(hist[j].log) : P(hist[j].log[k])

ExistsLog(P(_)) ==
    \E j \in 1..Len(hist) : \E k \in 1..Len(hist[j].log) : P(hist[j].log[k])

\* some scope of the chain e binds the name i
Bound(e, i) == \E j \in 1..Len(e) : i \in DOMAIN e[j]

\* the scope of the chain e that a lookup of the bound name i reaches
Nearest(e, i) == CHOOSE j \in 1..Len(e) :
                     i \in DOMAIN e[j] /\ \A h \in 1..(j - 1) : i \notin DOMAIN e[h]

\* a return statement sits d blocks deep inside the block ast, d >= 0
RECURSIVE ReturnInside(_, _)
ReturnInside(ast, d) ==
    /\ ast.t = "Block"
    /\ \E k \in 1..Len(ast.arr) :
           IF d = 0 THEN ast.arr[k].t = "Return" ELSE ReturnInside(ast.arr[k], d - 1)

\* C1: a call statement in a block never ends the block: when the call has
\* been evaluated and is not the last statement of the block, the statement
\* after it is evaluated too (the return signal of the callee stays in the call).
C1_ReturnStaysInCall ==
    ForAllLog(LAMBDA b :
        b.op = "block" =>
            \A k \in 1..Len(b.rets) :
                (b.arr[k].t = "Call" /\ k < Len(b.arr)) => Len(b.rets) > k)

\* C2: a return stops every block between it and the function boundary at the
\* statement that produced it, and the call of a function whose return sits
\* two blocks deep inside its body yields exactly the returned value, plain.
C2_NestedReturnUnwinds ==
    ForAllLog(LAMBDA b :
        /\ b.op = "block" =>
               \A k \in 1..Len(b.rets) :
                   (b.rets[k].st = "Ok" /\ b.rets[k].v.rt = "Return")
                       => k = Len(b.rets)
        /\ (b.op = "call_func" /\ ReturnInside(b.body, 2)
                /\ b.ret.rt = "Return")
               => b.v = b.ret.r)

\* C3: a top-level statement that fails at run time does not stop the run:
\* the statements after it are still evaluated.
C3_FailureDoesNotStopRun ==
    ~(/\ pc = "panic"
      /\ Len(hist) > 0
      /\ hist[Len(hist)].st = "Panic"
      /\ idx + 1 < Len(result))

\* C4: a read of a name that no scope of the chain binds ends in the
\* undefined-variable error and leaves the environment as it was.
C4_UndefinedReadIsError ==
    ForAllLog(LAMBDA b :
        (b.op = "identifier" /\ ~Bound(b.before, b.i))
            => /\ b.st = "Err"
               /\ b.v = NotFoundVar(b.i)
               /\ b.after = b.before)

\* C5: an assignment to a name that no scope of the chain binds ends in the
\* undefined-variable error and binds the name nowhere.
C5_UndefinedAssignIsError ==
    ForAllLog(LAMBDA b :
        (b.op = "assign" /\ ~Bound(b.before, b.i))
            => /\ b.st = "Err"
               /\ b.v = NotFoundVar(b.i)
               /\ ~Bound(b.after, b.i))

\* the statement that blocks holding one statement each are wrapped around
RECURSIVE Innermost(_)
Innermost(ast) ==
    IF ast.t = "Block" /\ Len(ast.arr) = 1 THEN Innermost(ast.arr[1]) ELSE ast

\* the number of those blocks
RECURSIVE NestDepth(_)
NestDepth(ast) ==
    IF ast.t = "Block" /\ Len(ast.arr) = 1 THEN 1 + NestDepth(ast.arr[1]) ELSE 0

\* the assignment b replaced the binding of its name in the nearest scope
\* that binds it, and changed nothing else
OverwritesNearest(b) ==
    b.after = [b.before EXCEPT ![Nearest(b.before, b.i)][b.i] =
                                   to_env_value(b.right).value]

\* C6: an assignment that succeeds overwrites the binding of the nearest scope
\* that binds its name, however many scopes out that is; and after a top-level
\* nest of blocks around an assignment of a number to a global name, the
\* global scope holds the number and a following print of the name writes it.
C6_InnerAssignReachesOuter ==
    /\ ForAllLog(LAMBDA b :
           (b.op = "assign" /\ b.st = "Ok") => OverwritesNearest(b))
    /\ \A j \in 1..Len(hist) :
           LET h == hist[j]
               a == Innermost(h.ast)
           IN  (/\ NestDepth(h.ast) >= 1
                /\ a.t = "Assign"
                /\ a.o.t = "Number"
                /\ Bound(h.before, a.i))
               => /\ h.st = "Ok"
                  /\ h.after = [h.before EXCEPT ![1][a.i] = VF64(a.o.n)]
                  /\ (j < Len(hist) /\ hist[j + 1].ast = AstPrint(AstIdentifier(a.i)))
                         => hist[j + 1].lines = print(RF64(a.o.n)).value

\* a nest of MaxDepth blocks around an assignment changed the global value,
\* and the print after it wrote the new value
C6_Witness ==
    \E j \in 1..(Len(hist) - 1) :
        LET h == hist[j]
            a == Innermost(h.ast)
        IN  /\ NestDepth(h.ast) = MaxDepth
            /\ a.t = "Assign"
            /\ a.o.t = "Number"
            /\ Bound(h.before, a.i)
            /\ h.before[1][a.i] # VF64(a.o.n)
            /\ h.after[1][a.i] = VF64(a.o.n)
            /\ hist[j + 1].ast = AstPrint(AstIdentifier(a.i))
            /\ hist[j + 1].lines = print(RF64(a.o.n)).value
            /\ \E k \in 1..Len(h.log) :
                   /\ h.log[k].op = "assign"
                   /\ Nearest(h.log[k].before, a.i) = MaxDepth + 1

\* the block b declares, as its first statement, a name that is bound outside
Shadows(b) ==
    /\ b.op = "block"
    /\ Len(b.rets) >= 1
    /\ b.arr[1].t = "Var"
    /\ b.rets[1].st = "Ok"
    /\ Bound(b.before, b.arr[1].i)

\* C7: a block that declares with var a name bound outside leaves every outer
\* binding of the name as it was; and every read and every assignment of a
\* bound name reaches the nearest scope that binds it, the inner one.
C7_ShadowingLeavesOuter ==
    ForAllLog(LAMBDA b :
        /\ Shadows(b) =>
               /\ Len(b.after) = Len(b.before)
               /\ \A j \in 1..Len(b.before) :
                      b.arr[1].i \in DOMAIN b.before[j]
                          => /\ b.arr[1].i \in DOMAIN b.after[j]
                             /\ b.after[j][b.arr[1].i] = b.before[j][b.arr[1].i]
        /\ (b.op = "identifier" /\ b.st = "Ok")
               => /\ to_env_value(b.v) = Some(b.before[Nearest(b.before, b.i)][b.i])
                  /\ b.after = b.before
        /\ (b.op = "assign" /\ b.st = "Ok")
               => Nearest(b.after, b.i) = Nearest(b.before, b.i))

\* a block shadowed a name with another value, read and assigned the inner
\* binding, and left
C7_Witness ==
    /\ ExistsLog(LAMBDA b :
           /\ Shadows(b)
           /\ b.own[b.arr[1].i] # b.before[Nearest(b.before, b.arr[1].i)][b.arr[1].i]
           /\ Len(b.rets) = Len(b.arr)
           /\ \E k \in 2..Len(b.arr) : b.arr[k] = AstPrint(AstIdentifier(b.arr[1].i))
           /\ \E k \in 2..Len(b.arr) : b.arr[k].t = "Assign" /\ b.arr[k].i = b.arr[1].i)
    /\ ExistsLog(LAMBDA b :
           /\ b.op = "identifier"
           /\ b.st = "Ok"
           /\ Nearest(b.before, b.i) = 1
           /\ \E j \in 2..Len(b.before) :
                  b.i \in DOMAIN b.before[j] /\ b.before[j][b.i] # b.before[1][b.i])

\* C8: a block, and with it a desugared for, leaves every enclosing scope with
\* the names it had: a name the block or the for declared is not bound after
\* it unless it was bound before.
C8_BlockRestoresNames ==
    /\ ForAllLog(LAMBDA b :
           b.op = "block" =>
               /\ Len(b.after) = Len(b.before)
               /\ \A j \in 1..Len(b.before) : DOMAIN b.after[j] = DOMAIN b.before[j]
               /\ \A x \in DOMAIN b.own : Bound(b.after, x) => Bound(b.before, x))
    /\ \A j \in 1..Len(hist) :
           (hist[j].ast.t = "Block" /\ hist[j].st # "Panic")
               => DOMAIN hist[j].after[1] = DOMAIN hist[j].before[1]

\* a desugared for inside MaxDepth blocks ran to its end and its loop variable
\* is gone, and a block inside a block declared a name of its own and left
C8_Witness ==
    /\ ExistsLog(LAMBDA b :
           /\ b.op = "block"
           /\ Len(b.arr) = 2
           /\ b.arr[1].t = "Var"
           /\ b.arr[2].t = "While"
           /\ Len(b.rets) = 2
           /\ b.arr[1].i \in DOMAIN b.own
           /\ Len(b.before) = MaxDepth + 1
           /\ ~Bound(b.before, b.arr[1].i)
           /\ ~Bound(b.after, b.arr[1].i))
    /\ ExistsLog(LAMBDA b :
           /\ b.op = "block"
           /\ Len(b.before) >= 2
           /\ DOMAIN b.own # {}
           /\ \A x \in DOMAIN b.own : ~Bound(b.after, x))

\* the tokens of ts through its last semicolon, and the Eof
Complete(ts) ==
    LET semis == {k \in 1..Len(ts) : ts[k].t = "SemiColon"}
        last == IF semis = {} THEN 0 ELSE CHOOSE k \in semis : \A h \in semis : h <= k
    IN  SubSeq(ts, 1, last) \o <<Tok("Eof")>>

\* C9: Parser::program ends on every token sequence that ends in Eof: its
\* loop makes no more iterations than there are tokens, and one more; and
\* what the tokens after the last semicolon start yields no statement.
C9_ProgramTerminates ==
    /\ iters <= Len(tokens) + 1
    /\ pc \in {"eval", "done"} =>
           /\ program(Complete(tokens)).done
           /\ result = program(Complete(tokens)).result

\* the tokens good are statements that Parser::program reads one after the
\* other, without a failure
RECURSIVE WellFormedFrom(_, _)
WellFormedFrom(ts, p) ==
    \/ end(ts, p)
    \/ LET d == declaration(ts, p) IN d.ok /\ WellFormedFrom(ts, d.pos)

WellFormed(good) == good # <<>> /\ WellFormedFrom(good \o <<Tok("Eof")>>, 0)

\* the tokens bad hold no semicolon and no keyword that recovery stops at, and
\* with a semicolon after them they are no declaration
Malformed(bad) ==
    /\ bad # <<>>
    /\ \A k \in 1..Len(bad) : bad[k].t \notin SyncKeywords \cup {"SemiColon"}
    /\ ~declaration(bad \o <<Tok("SemiColon"), Tok("Eof")>>, 0).ok

\* C10: of a malformed statement that ends at a semicolon, followed by
\* well-formed statements, Parser::program yields the well-formed statements,
\* all of them and nothing else.
C10_RecoveryKeepsFollowing ==
    pc \in {"eval", "done"} =>
        \A k \in 2..(Len(tokens) - 2) :
            LET bad == SubSeq(tokens, 1, k - 1)
                good == SubSeq(tokens, k + 1, Len(tokens) - 1)
            IN  (tokens[k].t = "SemiColon" /\ Malformed(bad) /\ WellFormed(good))
                    => result = program(good \o <<Tok("Eof")>>).result

\* the entries between the parentheses of CallTokens(n) or FunTokens(n)
Entries(ts) == 1 + Cardinality({k \in 1..Len(ts) : ts[k].t = "Comma"})

\* C11: the parse of a call or of a function declaration whose list has more
\* entries than MaxArgs raises no parse error and yields the call or the
\* declaration with MaxArgs entries; a shorter list is kept whole.
C11_ListsAreCapped ==
    pc \in {"parsed", "parse_error"} =>
        /\ pc = "parsed"
        /\ LET kept == IF result[1].t = "Call" THEN result[1].arguments
                       ELSE result[1].args
           IN  Len(kept) = IF Entries(tokens) > MaxArgs THEN MaxArgs
                           ELSE Entries(tokens)

\* C12: a top-level statement that evaluates without error and executes no
\* print statement writes no line.
C12_OnlyPrintWrites ==
    \A j \in 1..Len(hist) :
        (/\ hist[j].st = "Ok"
         /\ \A k \in 1..Len(hist[j].log) : hist[j].log[k].op # "print_stmt")
            => hist[j].lines = <<>>

\* the script is a op1 b op2 c; and Parser::program has returned
IsExpr3 ==
    /\ pc \in {"eval", "done"}
    /\ Len(tokens) = 7
    /\ tokens[1].t = "Number" /\ tokens[3].t = "Number" /\ tokens[5].t = "Number"
    /\ tokens[2].t \in BinaryTokens /\ tokens[4].t \in BinaryTokens
    /\ tokens[6].t = "SemiColon"

\* the node kind of a binary operator token
Kind(k) == CASE k = "Star" -> "Mul" [] k = "Slash" -> "Div" [] OTHER -> k

\* the trees (a op1 b) op2 c and a op1 (b op2 c) of the script
LeftTree ==
    AstBinary(Kind(tokens[4].t),
              AstBinary(Kind(tokens[2].t), AstNumber(tokens[1].n), AstNumber(tokens[3].n)),
              AstNumber(tokens[5].n))

RightTree ==
    AstBinary(Kind(tokens[2].t), AstNumber(tokens[1].n),
              AstBinary(Kind(tokens[4].t), AstNumber(tokens[3].n), AstNumber(tokens[5].n)))

\* x op y of the arithmetic operators, on the integers
Arith(k, x, y) ==
    CASE k = "Plus" -> x + y
      [] k = "Minus" -> x - y
      [] k = "Star" -> x * y
      [] OTHER -> x \div y

\* C13: two operators of one level between three numbers parse to the tree
\* ((a op1 b) op2 c), and for the arithmetic levels the statement evaluates to
\* the value of that tree: 10 - 3 - 1 to 6.
C13_LeftAssociative ==
    (IsExpr3 /\ Level(tokens[2].t) = Level(tokens[4].t)) =>
        /\ result = <<LeftTree>>
        /\ (Len(hist) = 1 /\ Level(tokens[2].t) >= 5) =>
               /\ hist[1].st = "Ok"
               /\ hist[1].v = RF64(Arith(tokens[4].t,
                                         Arith(tokens[2].t, tokens[1].n, tokens[3].n),
                                         tokens[5].n))

\* 10 - 3 - 1; has been parsed to Minus(Minus(10, 3), 1) and evaluated to 6
C13_Witness ==
    /\ IsExpr3
    /\ tokens[1].n = 10 /\ tokens[2].t = "Minus" /\ tokens[4].t = "Minus"
    /\ result = <<LeftTree>>
    /\ Len(hist) = 1
    /\ hist[1].v = RF64(6)
    /\ out = print(RF64(6)).value

\* C14: of two operators of different levels between three numbers the one of
\* the tighter level is the sub-tree of the other, whichever comes first.
C14_PrecedenceOrder ==
    (IsExpr3 /\ Level(tokens[2].t) # Level(tokens[4].t)) =>
        result = <<IF Level(tokens[2].t) > Level(tokens[4].t) THEN LeftTree ELSE RightTree>>

\* 2 + 3 * 1; is Plus(2, Mul(3, 1)) and evaluated to 5, the operators the
\* other way round would have given another tree
C14_Witness ==
    /\ IsExpr3
    /\ tokens[1].n = 2 /\ tokens[2].t = "Plus" /\ tokens[4].t = "Star"
    /\ result = <<AstBinary("Plus", AstNumber(2), AstBinary("Mul", AstNumber(3), AstNumber(1)))>>
    /\ Len(hist) = 1
    /\ hist[1].v = RF64(5)

\* the script begins with an expression that an `=` follows
BeginsWithAssignment ==
    LET left == or_parse(tokens, 0) IN
    left.ok /\ ~end(tokens, left.pos) /\ tokens[left.pos + 1].t = "Equal"

\* C15: a = b = 1 parses to Assign(a, Assign(b, 1)); an `=` after a left side
\* that did not parse as a bare identifier is a parse failure, and the
\* statement gives no tree: of `<left side> = 2; print 5;` only the print is
\* in the program.
C15_AssignmentShape ==
    /\ BeginsWithAssignment =>
           (or_parse(tokens, 0).ast.t # "Identifier" => ~declaration(tokens, 0).ok)
    /\ pc # "parse" =>
           /\ \A lhs \in BadLeftSides :
                  tokens = lhs \o <<Tok("Equal"), TNum(2)>> \o Semi \o PrintNum(5)
                               \o <<Tok("Eof")>>
                      => result = <<AstPrint(AstNumber(5))>>
           /\ tokens = <<TId("a"), Tok("Equal")>> \o AssignStmt("b", 1) \o <<Tok("Eof")>>
                  => result = <<AstAssign("a", AstAssign("b", AstNumber(1)))>>

\* the parse of `a + 1 = 2; print 5;` has dropped the assignment and kept the
\* print, which has been evaluated
C15_Witness ==
    /\ tokens = <<TId("a"), Tok("Plus"), TNum(1), Tok("Equal"), TNum(2)>> \o Semi
                    \o PrintNum(5) \o <<Tok("Eof")>>
    /\ BeginsWithAssignment
    /\ result = <<AstPrint(AstNumber(5))>>
    /\ pc = "done"
    /\ out = print(RF64(5)).value

\* Block[init, While(cond, Block[body, incr])] of ForTokens(init, cond, incr)
ForTree(init, cond, incr) ==
    AstBlock(<<
        CASE init = "var" -> AstVar("i", AstNumber(0))
          [] init = "expr" -> AstAssign("i", AstNumber(0))
          [] OTHER -> AstNil,
        AstWhile(IF cond THEN AstBinary("Less", AstIdentifier("i"), AstNumber(2))
                 ELSE AstTrue,
                 AstBlock(<<
                     AstPrint(AstIdentifier("i")),
                     IF incr
                     THEN AstAssign("i", AstBinary("Plus", AstIdentifier("i"), AstNumber(1)))
                     ELSE AstNil >>)) >>)

\* C16: the parser yields for `for (init; cond; incr) body` the tree
\* Block[init, While(cond, Block[body, incr])], with true for a condition left
\* out and nil for an init or incr left out.
C16_ForDesugared ==
    pc # "parse" =>
        \A f \in ForShapes :
            tokens = ForTokens(f[1], f[2], f[3]) \o <<Tok("Eof")>>
                => result = <<ForTree(f[1], f[2], f[3])>>

\* `for (;;) print i;` has been parsed to Block[nil, While(true, Block[print i, nil])]
C16_Witness ==
    /\ pc # "parse"
    /\ tokens = ForTokens("none", FALSE, FALSE) \o <<Tok("Eof")>>
    /\ result = <<AstBlock(<<AstNil,
                             AstWhile(AstTrue, AstBlock(<<AstPrint(AstIdentifier("i")),
                                                         AstNil>>))>>)>>

\* the tree of `for (var i = 0; i < n; i = i + 1) print i;`
ForPrintTree(n) ==
    AstBlock(<<AstVar("i", AstNumber(0)),
               AstWhile(AstBinary("Less", AstIdentifier("i"), AstNumber(n)),
                        AstBlock(<<AstPrint(AstIdentifier("i")),
                                   AstAssign("i", AstBinary("Plus", AstIdentifier("i"),
                                                            AstNumber(1)))>>))>>)

\* what a log shows of the variable i: each read with the value read, each
\* print, each assignment with the value assigned
Steps(log) ==
    LET own == SelectSeq(log, LAMBDA l : l.op \in {"identifier", "assign", "print_stmt"}) IN
    [k \in 1..Len(own) |->
        CASE own[k].op = "identifier" -> <<"read", own[k].v.f>>
          [] own[k].op = "assign" -> <<"assign", own[k].right.f>>
          [] OTHER -> <<"print", 0>>]

\* the steps of round j of the loop and of all rounds from j below n
Round(j) == << <<"read", j>>, <<"read", j>>, <<"print", 0>>, <<"read", j>>, <<"assign", j + 1>> >>

RECURSIVE Rounds(_, _)
Rounds(j, n) == IF j >= n THEN << <<"read", n>> >> ELSE Round(j) \o Rounds(j + 1, n)

ForCounts == 2..3

\* C17: a for loop runs init once, tests cond before each round and runs incr
\* after the body: `for (var i = 0; i < n; i = i + 1) print i;` reads i for the
\* test, prints it, increments it, n times from 0, writes 0 .. n-1 and stops at
\* the test of n.
C17_ForRuns ==
    \A k \in 1..Len(hist) : \A n \in ForCounts :
        hist[k].ast = ForPrintTree(n) =>
            /\ hist[k].st = "Ok"
            /\ hist[k].lines = [j \in 1..n |-> Line(fmt_f64(j - 1))]
            /\ Steps(hist[k].log) = Rounds(0, n)
            /\ hist[k].after = hist[k].before

\* `for (var i = 0; i < 3; i = i + 1) print i;` has run and written 0, 1, 2
C17_Witness ==
    /\ pc = "done"
    /\ tokens = ForPrint("i", 3) \o <<Tok("Eof")>>
    /\ hist[1].ast = ForPrintTree(3)
    /\ out = <<Line(<<"0">>), Line(<<"1">>), Line(<<"2">>)>>

IsLiteral(ast) == ast.t \in {"Number", "String", "True", "False", "Nil"}

\* the kind of a literal and the value eval gives it
ValueKind(ast) ==
    CASE ast.t = "Number" -> "number"
      [] ast.t = "String" -> "string"
      [] ast.t \in {"True", "False"} -> "boolean"
      [] OTHER -> "nil"

LiteralValue(ast) ==
    CASE ast.t = "Number" -> RF64(ast.n)
      [] ast.t = "String" -> RString(ast.s)
      [] ast.t = "True" -> RBool(TRUE)
      [] ast.t = "False" -> RBool(FALSE)
      [] OTHER -> RVoid

\* the statements run so far that are one operator of ops between two literals
PairEntries(ops) ==
    {k \in 1..Len(hist) :
        /\ hist[k].ast.t \in ops
        /\ IsLiteral(hist[k].ast.l)
        /\ IsLiteral(hist[k].ast.r)}

\* C18: +, -, * and / between two literals succeed only for two numbers, and
\* + also for two strings, which it joins; every other pair of kinds fails with
\* the error TwoOperandType of the two operands, nothing is coerced.
C18_ArithmeticKinds ==
    \A k \in PairEntries({"Plus", "Minus", "Mul", "Div"}) :
        LET h == hist[k]
            l == h.ast.l
            r == h.ast.r
            numbers == ValueKind(l) = "number" /\ ValueKind(r) = "number"
            strings == ValueKind(l) = "string" /\ ValueKind(r) = "string"
        IN  IF numbers
            THEN h.st = "Ok" /\ h.v = RF64(Arith(CASE h.ast.t = "Mul" -> "Star"
                                                   [] h.ast.t = "Div" -> "Slash"
                                                   [] OTHER -> h.ast.t, l.n, r.n))
            ELSE IF strings /\ h.ast.t = "Plus"
            THEN h.st = "Ok" /\ h.v = RString(l.s \o r.s)
            ELSE /\ h.st = "Err"
                 /\ h.v = TwoOperandType(LiteralValue(l), LiteralValue(r))
                 /\ h.lines = <<ErrorLine("TwoOperandType")>>

\* 4 + "a"; has run and failed with TwoOperandType of the number and the string
C18_Witness ==
    /\ pc = "done"
    /\ tokens = <<TNum(4), Tok("Plus"), TStr(<<"a">>)>> \o Semi \o <<Tok("Eof")>>
    /\ 1 \in PairEntries({"Plus"})
    /\ hist[1].st = "Err"
    /\ hist[1].v = TwoOperandType(RF64(4), RString(<<"a">>))

\* C19: == between two literals of one kind gives the boolean of their being
\* equal, for numbers, strings, booleans and nil alike (nil == nil is true);
\* only two literals of different kinds fail.
C19_EqualAcceptsSameKind ==
    \A k \in PairEntries({"EqualEqual"}) :
        LET h == hist[k] IN
        IF ValueKind(h.ast.l) = ValueKind(h.ast.r)
        THEN h.st = "Ok" /\ h.v = RBool(LiteralValue(h.ast.l) = LiteralValue(h.ast.r))
        ELSE h.st = "Err"

\* the statements run so far that are `l and f()` or `l or f()` with a boolean
\* literal l, f being the function that prints 1 and returns a boolean
LogicEntries ==
    {k \in 1..Len(hist) :
        /\ hist[k].ast.t \in {"And", "Or"}
        /\ hist[k].ast.l.t \in {"True", "False"}
        /\ hist[k].ast.r = AstCall("f", <<>>)
        /\ Bound(hist[k].before, "f")}

\* C20: and / or evaluate the right operand whatever the left one is: in
\* `false and f()` and `true or f()`, as in `true and f()` and `false or f()`,
\* the call f() is performed, its line is written, and the result is the
\* conjunction or disjunction of both values.
C20_NoShortCircuit ==
    \A k \in LogicEntries :
        LET h == hist[k]
            calls == SelectSeq(h.log, LAMBDA l : l.op = "call_func")
            left == h.ast.l.t = "True"
        IN  /\ Len(calls) = 1
            /\ \E j \in 1..Len(h.log) : h.log[j].op = "print_stmt"
            /\ Len(h.lines) >= 1 /\ h.lines[1] = Line(<<"1">>)
            /\ h.st = "Ok"
            /\ \E right \in BOOLEAN :
                  /\ calls[1].ret = RReturn(RBool(right))
                  /\ h.v = RBool(IF h.ast.t = "And" THEN left /\ right ELSE left \/ right)

\* `false and f()` has run: f was called and wrote its line, the result is false
C20_Witness ==
    /\ pc = "done"
    /\ \E k \in LogicEntries :
          /\ hist[k].ast = AstBinary("And", AstFalse, AstCall("f", <<>>))
          /\ \E j \in 1..Len(hist[k].log) : hist[k].log[j].op = "call_func"
          /\ hist[k].lines[1] = Line(<<"1">>)
          /\ hist[k].v = RBool(FALSE)

\* the statements run so far that call a user function with bare names as
\* arguments, their number being other than the number of its parameters
MiscountedCalls ==
    {k \in 1..Len(hist) :
        /\ hist[k].ast.t = "Call"
        /\ \A j \in 1..Len(hist[k].ast.arguments) : hist[k].ast.arguments[j].t = "Identifier"
        /\ Bound(hist[k].before, hist[k].ast.callee)
        /\ get(hist[k].before, hist[k].ast.callee).value.k = "UserFunc"
        /\ Len(get(hist[k].before, hist[k].ast.callee).value.args)
               # Len(hist[k].ast.arguments)}

\* C21: a call of a user function with a number of arguments other than its
\* number of parameters reads its arguments from left to right, then fails with
\* NotMatchArgsNum; the body is not evaluated (nothing of it is logged, nothing
\* is printed, no binding changes).
C21_ArgumentCountChecked ==
    \A k \in MiscountedCalls :
        LET h == hist[k] IN
        /\ h.st = "Err"
        /\ h.v = NotMatchArgsNum
        /\ Len(h.log) = Len(h.ast.arguments)
        /\ \A j \in 1..Len(h.log) :
              h.log[j].op = "identifier" /\ h.log[j].i = h.ast.arguments[j].i
        /\ h.lines = <<ErrorLine("NotMatchArgsNum")>>
        /\ h.after = h.before

\* f(b, a); has run for fun f(x): b and a were read in this order and the call
\* failed on the count
C21_Witness ==
    /\ pc = "done"
    /\ Len(hist) = 4
    /\ 4 \in MiscountedCalls
    /\ hist[4].ast = AstCall("f", <<AstIdentifier("b"), AstIdentifier("a")>>)
    /\ Len(hist[4].log) = 2
    /\ hist[4].log[1].i = "b" /\ hist[4].log[2].i = "a"
    /\ hist[4].v = NotMatchArgsNum

\* C22: a call of a name that no scope of the chain binds fails with
\* NotFoundFunc of that name, and the failure is reported as the line of a
\* runtime error for its top-level statement.
C22_UndeclaredCalleeIsError ==
    \A k \in 1..Len(hist) :
        (hist[k].ast.t = "Call" /\ ~Bound(hist[k].before, hist[k].ast.callee)) =>
            /\ hist[k].st = "Err"
            /\ hist[k].v = NotFoundFunc(hist[k].ast.callee)
            /\ hist[k].lines = <<ErrorLine("NotFoundFunc")>>

\* the statements run so far that are { var x = n; f(); } where f is bound to
\* the function of body { print x; } and the scopes outside bind x
CallsFromBlock ==
    {k \in 1..Len(hist) :
        /\ hist[k].ast.t = "Block"
        /\ Len(hist[k].ast.arr) = 2
        /\ hist[k].ast.arr[1].t = "Var" /\ hist[k].ast.arr[1].i = "x"
        /\ hist[k].ast.arr[1].o.t = "Number"
        /\ hist[k].ast.arr[2] = AstCall("f", <<>>)
        /\ Bound(hist[k].before, "f") /\ Bound(hist[k].before, "x")
        /\ get(hist[k].before, "f").value
               = UserFunc(<<>>, AstBlock(<<AstPrint(AstIdentifier("x"))>>))}

\* C23: a free name of a function body is looked up in the scope chain of the
\* call: f, declared while the only x is the global one, and called from a
\* block that declares its own x = n, reads n in its body and prints it; the
\* chain of that read is the block of the body and the scope of the call in
\* front of the caller's chain.
C23_DynamicScope ==
    \A k \in CallsFromBlock :
        LET h == hist[k]
            n == h.ast.arr[1].o.n
            reads == SelectSeq(h.log, LAMBDA l : l.op = "identifier")
        IN  /\ h.st = "Ok"
            /\ h.lines = <<Line(fmt_f64(n))>>
            /\ Len(reads) = 1
            /\ reads[1].i = "x" /\ reads[1].v = RF64(n)
            /\ reads[1].before = <<NoVariables, NoVariables, [x |-> VF64(n)]>> \o h.before
            /\ get(h.before, "x") = get(h.after, "x")

\* var x = 1; fun f() { print x; } { var x = 2; f(); } has run and written 2
C23_Witness ==
    /\ pc = "done"
    /\ tokens = VarStmt("x", 1) \o FunDecl("f", PrintId("x"))
                    \o Braces(VarStmt("x", 2) \o CallStmt("f", <<>>)) \o <<Tok("Eof")>>
    /\ 3 \in CallsFromBlock
    /\ get(hist[3].before, "x") = Some(VF64(1))
    /\ out = <<Line(<<"2">>)>>

\* C24: `var a;` evaluates without failure and leaves a bound in the current
\* scope; a statement that reads a afterwards yields nil.
C24_UninitializedIsNil ==
    \A k \in 1..Len(hist) :
        (hist[k].ast.t = "Var" /\ hist[k].ast.o = AstNil) =>
            /\ hist[k].st = "Ok"
            /\ hist[k].ast.i \in DOMAIN hist[k].after[1]
            /\ \A j \in (k + 1)..Len(hist) :
                  hist[j].ast = AstIdentifier(hist[k].ast.i) =>
                      hist[j].st = "Ok" /\ hist[j].v = RVoid

\* C25: !x of a literal x never fails and is true exactly for nil and false;
\* it is false for every number, zero included, and for every string, the
\* empty one included.
C25_BangIsTruthiness ==
    \A k \in 1..Len(hist) :
        (hist[k].ast.t = "Bang" /\ IsLiteral(hist[k].ast.o)) =>
            /\ hist[k].st = "Ok"
            /\ hist[k].v = RBool(hist[k].ast.o.t \in {"Nil", "False"})
            /\ hist[k].lines = <<Line(fmt_bool(hist[k].ast.o.t \in {"Nil", "False"}))>>

\* !0; has run and given false
C25_Witness ==
    /\ pc = "done"
    /\ tokens = <<Tok("Bang"), TNum(0)>> \o Semi \o <<Tok("Eof")>>
    /\ hist[1].ast = AstUnary("Bang", AstNumber(0))
    /\ hist[1].v = RBool(FALSE)

\* a loop, or the block a for loop is turned into, whose body ends in return 7
ReturnsFromLoop(ast) ==
    \/ /\ ast.t = "While"
       /\ ast.stmt.t = "Block"
       /\ ast.stmt.arr[Len(ast.stmt.arr)] = AstReturn(AstNumber(7))
    \/ /\ ast.t = "Block"
       /\ Len(ast.arr) = 2
       /\ ast.arr[2].t = "While"
       /\ ast.arr[2].stmt.t = "Block"
       /\ ast.arr[2].stmt.arr[1] = AstBlock(<<AstReturn(AstNumber(7))>>)

\* the statements run so far that print a call of f, f being bound to a
\* function whose body is a loop that returns 7 followed by return 9
LoopReturnCalls ==
    {k \in 1..Len(hist) :
        /\ hist[k].ast = AstPrint(AstCall("f", <<>>))
        /\ Bound(hist[k].before, "f")
        /\ LET body == get(hist[k].before, "f").value.body IN
           /\ body.arr[Len(body.arr)] = AstReturn(AstNumber(9))
           /\ ReturnsFromLoop(body.arr[Len(body.arr) - 1])}

\* C26: a return inside the body of a while loop, or of a for loop, of a
\* function ends the loop and the call: the block with the return runs once,
\* no statement after the loop runs, and the call gives the returned value 7.
C26_ReturnLeavesLoop ==
    \A k \in LoopReturnCalls :
        LET h == hist[k]
            returning == SelectSeq(h.log, LAMBDA l :
                             /\ l.op = "block"
                             /\ l.arr[Len(l.arr)] = AstReturn(AstNumber(7)))
            calls == SelectSeq(h.log, LAMBDA l : l.op = "call_func")
        IN  /\ h.st = "Ok"
            /\ Len(returning) = 1
            /\ Len(calls) = 1
            /\ calls[1].ret \in {RF64(7), RReturn(RF64(7))}
            /\ h.lines = <<Line(<<"7">>)>>

\* a statement that fails with TwoOperandType: true + 1
Failing == AstBinary("Plus", AstTrue, AstNumber(1))

\* the block ast has Failing as a statement that is not its last one, itself
\* or in the block that is its only statement
RECURSIVE FailsEarly(_)
FailsEarly(ast) ==
    /\ ast.t = "Block"
    /\ \/ Len(ast.arr) >= 2 /\ ast.arr[1] = Failing
       \/ Len(ast.arr) = 1 /\ FailsEarly(ast.arr[1])

\* C27: a runtime error of a statement inside a block aborts the top-level
\* statement: the statements after it in the block are not evaluated (nothing
\* is printed, no binding changes) and the top-level statement ends in that
\* error.
C27_ErrorAbortsBlock ==
    \A k \in 1..Len(hist) :
        FailsEarly(hist[k].ast) =>
            /\ hist[k].st = "Err"
            /\ hist[k].v = TwoOperandType(RBool(TRUE), RF64(1))
            /\ hist[k].lines = <<ErrorLine("TwoOperandType")>>
            /\ \A j \in 1..Len(hist[k].log) :
                  hist[k].log[j].op \notin {"print_stmt", "assign"}
            /\ hist[k].after = hist[k].before

\* the statements run so far that end in a runtime error and are a call, with
\* no arguments, of a user function of no parameters
FailedCalls ==
    {k \in 1..Len(hist) :
        /\ hist[k].ast.t = "Call"
        /\ hist[k].ast.arguments = <<>>
        /\ hist[k].st = "Err"
        /\ Bound(hist[k].before, hist[k].ast.callee)
        /\ get(hist[k].before, hist[k].ast.callee).value.k = "UserFunc"
        /\ get(hist[k].before, hist[k].ast.callee).value.args = <<>>}

\* C28: a call of a user function whose body ends in a runtime error leaves
\* the caller's environment as it was when the body began: what the body
\* assigned to variables of enclosing scopes before it failed is gone.
C28_FailedCallKeepsEnvironment ==
    \A k \in FailedCalls : hist[k].after = hist[k].before

\* f(); has failed after its body assigned 2 to the global a, a is still 1
\* and print a; has written 1
C28_Witness ==
    /\ pc = "done"
    /\ Len(hist) = 4
    /\ 3 \in FailedCalls
    /\ hist[3].v = TwoOperandType(RBool(TRUE), RF64(1))
    /\ \E j \in 1..Len(hist[3].log) :
          /\ hist[3].log[j].op = "assign"
          /\ hist[3].log[j].st = "Ok"
          /\ get(hist[3].log[j].after, "a") = Some(VF64(2))
    /\ get(hist[3].after, "a") = Some(VF64(1))
    /\ hist[4].lines = <<Line(<<"1">>)>>

\* C29: while Parser::program runs, 0 <= read_pos <= Len(tokens) after every
\* iteration of its loop, and back() is never applied at position 0 (where it
\* panics on the subtraction or leaves read_pos wrapped below 0).
C29_ReadPosInRange ==
    /\ pc # "panic"
    /\ 0 <= read_pos
    /\ read_pos <= Len(tokens)

\* a value is a Return of a Return
Doubled(v) == v.rt = "Return" /\ v.r.rt = "Return"

\* C30: no value eval produces is a Return that wraps a Return, neither the
\* value of a top-level statement nor the value a call ends with, also where
\* a function returns the call of another (`return g();`); so a value that
\* passes a kind check is never one the downcast of that kind panics on, and
\* no statement ends in such a panic.
C30_ReturnWrapsOnce ==
    /\ \A k \in 1..Len(hist) :
          /\ hist[k].st = "Ok" => ~Doubled(hist[k].v)
          /\ hist[k].st = "Ok" /\ one_type_check_f64(hist[k].v)
                 => downcast_f64(hist[k].v).k = "Some"
    /\ ForAllLog(LAMBDA l : l.op = "call_func" => ~Doubled(l.ret))

====
